---------------------------- MODULE Spec2Model ----------------------------
(***************************************************************************)
(* A model of the todo-gokit service: the operation core (basicService),   *)
(* the document store behind it (mongoStore), the service middleware of    *)
(* addservice.New, the server endpoints built by addendpoint.New (rate     *)
(* limiter, circuit breaker and the pass-through decorators around each    *)
(* operation) behind the HTTP transport of NewHTTPHandler, and the client  *)
(* of NewHTTPClient calling that server.                                   *)
(*                                                                         *)
(* Strings that the code measures or builds (Concat's operands, task       *)
(* identifiers) are sequences of one-character strings, so that len and    *)
(* concatenation are computed; errors are named by their Go identifier,    *)
(* "nil" standing for the nil error.                                       *)
(***************************************************************************)
EXTENDS Integers, Sequences, FiniteSets, TLC

VARIABLES
    zipkinTracer,   \* whether addendpoint.New was given a zipkin tracer
    focus,          \* the route the modelled traffic is sent to
    now,            \* the wall clock, in ticks
    limiters,       \* per endpoint chain: the rate.Limiter's tokens and last
    breakers,       \* per endpoint chain: the gobreaker.CircuitBreaker's state
    collection,     \* the documents of the store's collection, in insertion order
    nextOID,        \* how many ObjectIDs the driver has generated
    ret,            \* the last direct call of a basicService method and its result
    last,           \* the last HTTP request handled and how it ended
    hist,           \* what the traffic so far has been (admissions, failures)
    calls,          \* the number of calls made so far
    advances,       \* the number of clock advances so far
    inflight,       \* the calls a breaker has let in that have not yet returned
    event,          \* the last thing a call did to that breaker
    clientZipkin,   \* whether NewHTTPClient was given a zipkin tracer
    clientLimiter,  \* the client's one rate.Limiter
    clientBreakers, \* the client's gobreaker.CircuitBreaker per endpoint block
    reply,          \* the last call of a method of the client's Set and how it ended
    ledger          \* the to-do items a caller of the service expects to exist

vars == <<zipkinTracer, focus, now, limiters, breakers, collection, nextOID,
          ret, last, hist, calls, advances, inflight, event,
          clientZipkin, clientLimiter, clientBreakers, reply, ledger>>

clientVars == <<clientZipkin, clientLimiter, clientBreakers, reply>>

(***************************************************************************)
(* Bounds of the model.                                                    *)
(***************************************************************************)
\* inputs of Sum lie within Near of 0, of intMin and of intMax
Near == 2
\* Concat's operands are at most this long
MaxStrLen == 11
\* the driver generates at most this many ObjectIDs
MaxItems == 1
\* clock ticks per second
TicksPerSec == 2

(***************************************************************************)
(* addservice: the operation core.                                         *)
(***************************************************************************)
intMax == 2147483647
intMin == -intMax - 1
maxLen == 10

Nil == "nil"
ErrTwoZeroes == "ErrTwoZeroes"
ErrIntOverflow == "ErrIntOverflow"
ErrMaxSizeExceeded == "ErrMaxSizeExceeded"

\* The sum a+b overflows the model checker's own integers at the edge of the
\* 32-bit range, so "a+b is in [intMin, intMax]" is decided on the halves:
\* floor((a+b)/2) = a \div 2 + b \div 2 + (a%2 + b%2) \div 2.
HalfSum(a, b) == (a \div 2) + (b \div 2) + (((a % 2) + (b % 2)) \div 2)
InRange32(a, b) ==
    /\ HalfSum(a, b) >= -1073741824
    /\ HalfSum(a, b) <= 1073741823

SumMutantOffByOne(a, b) ==
    IF a = 0 /\ b = 0 THEN [v |-> 0, err |-> ErrTwoZeroes]
    ELSE IF (b > 0 /\ a >= (intMax - b)) \/ (b < 0 /\ a <= (intMin - b))
         THEN [v |-> 0, err |-> ErrIntOverflow]
         ELSE [v |-> a + b, err |-> Nil]

SumMutantEitherZero(a, b) ==
    IF a = 0 \/ b = 0 THEN [v |-> 0, err |-> ErrTwoZeroes]
    ELSE IF (b > 0 /\ a > (intMax - b)) \/ (b < 0 /\ a < (intMin - b))
         THEN [v |-> 0, err |-> ErrIntOverflow]
         ELSE [v |-> a + b, err |-> Nil]

SumMutantNoLowerCheck(a, b) ==
    IF a = 0 /\ b = 0 THEN [v |-> 0, err |-> ErrTwoZeroes]
    ELSE IF b > 0 /\ a > (intMax - b)
         THEN [v |-> 0, err |-> ErrIntOverflow]
         ELSE [v |-> IF InRange32(a, b) THEN a + b
                     ELSE ((a + intMax) + 1) + ((b + intMax) + 1),
               err |-> Nil]

\* basicService.Sum
Sum(a, b) ==
    IF a = 0 /\ b = 0 THEN [v |-> 0, err |-> ErrTwoZeroes]
    ELSE IF (b > 0 /\ a > (intMax - b)) \/ (b < 0 /\ a < (intMin - b))
         THEN [v |-> 0, err |-> ErrIntOverflow]
         ELSE [v |-> a + b, err |-> Nil]

ConcatMutantNoLimit(a, b) ==
    IF Len(a) + Len(b) >= maxLen
    THEN [v |-> <<>>, err |-> ErrMaxSizeExceeded]
    ELSE [v |-> a \o b, err |-> Nil]

\* basicService.Concat
Concat(a, b) ==
    IF Len(a) + Len(b) > maxLen
    THEN [v |-> <<>>, err |-> ErrMaxSizeExceeded]
    ELSE [v |-> a \o b, err |-> Nil]

(***************************************************************************)
(* pkg/models and pkg/store: to-do items and the document store.           *)
(* An ObjectID is 12 bytes; its hex form is 24 characters.                 *)
(***************************************************************************)
OidBytes == 12
OidHexLen == 24

ErrInvalidHex == "ErrInvalidHex"
ErrDuplicateKey == "ErrDuplicateKey"
StoreErr == "StoreErr"

HexChars == <<"0", "1", "2", "3", "4", "5", "6", "7", "8", "9",
              "a", "b", "c", "d", "e", "f">>
UpperHexChars == <<"0", "1", "2", "3", "4", "5", "6", "7", "8", "9",
                   "A", "B", "C", "D", "E", "F">>

IsHexChar(c) == \E i \in 1..16 : HexChars[i] = c \/ UpperHexChars[i] = c
HexVal(c) == (CHOOSE i \in 1..16 : HexChars[i] = c \/ UpperHexChars[i] = c) - 1

NilObjectID == [i \in 1..OidBytes |-> 0]

\* primitive.ObjectID.Hex
Hex(oid) ==
    [i \in 1..(2 * Len(oid)) |->
        IF i % 2 = 1 THEN HexChars[(oid[(i + 1) \div 2] \div 16) + 1]
                     ELSE HexChars[(oid[i \div 2] % 16) + 1]]

\* primitive.ObjectIDFromHex
ObjectIDFromHex(s) ==
    IF Len(s) # OidHexLen \/ (\E i \in 1..Len(s) : ~IsHexChar(s[i]))
    THEN [id |-> NilObjectID, err |-> ErrInvalidHex]
    ELSE [id |-> [i \in 1..OidBytes |->
                    16 * HexVal(s[2 * i - 1]) + HexVal(s[2 * i])],
          err |-> Nil]

\* the k-th ObjectID the driver generates, and an ObjectID a client chose
GenOID(k) == [i \in 1..OidBytes |-> IF i = 1 THEN 94 ELSE IF i = OidBytes THEN k ELSE 0]
ClientOID == [i \in 1..OidBytes |-> IF i = 1 THEN 171 ELSE IF i = OidBytes THEN 205 ELSE 0]

HasID(coll, id) == \E i \in 1..Len(coll) : coll[i].ID = id

\* mongoStore.Ping
StorePing(fault) == IF fault THEN StoreErr ELSE Nil

\* mongoStore.InsertToDo: a zero _id is omitted and the driver generates one
InsertToDo(st, task, fault) ==
    IF fault THEN [v |-> <<>>, err |-> StoreErr, st |-> st]
    ELSE IF task.ID # NilObjectID /\ HasID(st.coll, task.ID)
    THEN [v |-> <<>>, err |-> ErrDuplicateKey, st |-> st]
    ELSE LET id == IF task.ID = NilObjectID THEN GenOID(st.oid + 1) ELSE task.ID
             doc == [ID |-> id, Task |-> task.Task, Status |-> task.Status]
         IN [v |-> Hex(id), err |-> Nil,
             st |-> [coll |-> Append(st.coll, doc),
                     oid |-> IF task.ID = NilObjectID THEN st.oid + 1 ELSE st.oid]]

SetStatusMutantEveryDocument(coll, id, status) ==
    [i \in 1..Len(coll) |-> [coll[i] EXCEPT !.Status = status]]

\* collection.UpdateOne(filter {_id: id}, {$set: {status: status}})
SetStatus(coll, id, status) ==
    LET hit == {i \in 1..Len(coll) : coll[i].ID = id}
    IN [i \in 1..Len(coll) |->
          IF i \in hit THEN [coll[i] EXCEPT !.Status = status] ELSE coll[i]]

UpdateStatusMutantUpsert(st, taskId, status, fault) ==
    LET r == ObjectIDFromHex(taskId)
    IN IF r.err # Nil THEN [v |-> <<>>, err |-> r.err, st |-> st]
       ELSE IF fault THEN [v |-> <<>>, err |-> StoreErr, st |-> st]
       ELSE IF ~HasID(st.coll, r.id)
       THEN [v |-> taskId, err |-> Nil,
             st |-> [st EXCEPT !.coll = Append(@, [ID |-> r.id, Task |-> "", Status |-> status])]]
       ELSE [v |-> taskId, err |-> Nil,
             st |-> [st EXCEPT !.coll = SetStatus(st.coll, r.id, status)]]

UpdateStatus(st, taskId, status, fault) ==
    LET r == ObjectIDFromHex(taskId)
    IN IF r.err # Nil THEN [v |-> <<>>, err |-> r.err, st |-> st]
       ELSE IF fault THEN [v |-> <<>>, err |-> StoreErr, st |-> st]
       ELSE [v |-> taskId, err |-> Nil,
             st |-> [st EXCEPT !.coll = SetStatus(st.coll, r.id, status)]]

\* mongoStore.CompleteToDo
StoreCompleteToDo(st, taskId, fault) == UpdateStatus(st, taskId, TRUE, fault)

\* mongoStore.UnDoToDo
StoreUnDoToDo(st, taskId, fault) == UpdateStatus(st, taskId, FALSE, fault)

RemoveIDMutantOrTheLast(coll, id) ==
    IF HasID(coll, id) THEN SelectSeq(coll, LAMBDA d : d.ID # id)
    ELSE SubSeq(coll, 1, Len(coll) - 1)

\* collection.DeleteOne(filter {_id: id})
RemoveID(coll, id) == SelectSeq(coll, LAMBDA d : d.ID # id)

\* mongoStore.DeleteToDo
StoreDeleteToDo(st, taskId, fault) ==
    LET r == ObjectIDFromHex(taskId)
    IN IF r.err # Nil THEN [v |-> <<>>, err |-> r.err, st |-> st]
       ELSE IF fault THEN [v |-> <<>>, err |-> StoreErr, st |-> st]
       ELSE [v |-> taskId, err |-> Nil,
             st |-> [st EXCEPT !.coll = RemoveID(st.coll, r.id)]]

\* mongoStore.GetAllToDo
StoreGetAllToDo(st, fault) ==
    IF fault THEN [v |-> <<>>, err |-> StoreErr, st |-> st]
    ELSE [v |-> st.coll, err |-> Nil, st |-> st]

(***************************************************************************)
(* basicService: Ping and the to-do methods, over the persistence port.    *)
(* st is the store's state [coll, oid]; port lists the port calls made,    *)
(* each with its argument and what the store returned.                     *)
(***************************************************************************)
\* what a port call leaves behind: the store's result r and the record of the call
Called(m, arg, r) ==
    [v |-> r.v, err |-> r.err, st |-> r.st,
     call |-> [m |-> m, arg |-> arg, v |-> r.v, err |-> r.err]]

\* a call through the store.Store interface held in basicService.dbStore
Port(st, m, arg, fault) ==
    Called(m, arg,
        CASE m = "Ping" -> [v |-> <<>>, err |-> StorePing(fault), st |-> st]
          [] m = "InsertToDo" -> InsertToDo(st, arg, fault)
          [] m = "CompleteToDo" -> StoreCompleteToDo(st, arg, fault)
          [] m = "UnDoToDo" -> StoreUnDoToDo(st, arg, fault)
          [] m = "DeleteToDo" -> StoreDeleteToDo(st, arg, fault)
          [] m = "GetAllToDo" -> StoreGetAllToDo(st, fault))

PingMutantSurfaceError(st, fault) ==
    CHOOSE x \in {[v |-> IF r.err # Nil THEN "down" ELSE "up", err |-> r.err, st |-> r.st,
                   port |-> <<r.call>>] : r \in {Port(st, "Ping", <<>>, fault)}} : TRUE

\* if err := s.dbStore.Ping(); err != nil { return "down", nil }; return "up", nil
UpOrDown(r) ==
    IF r.err # Nil
    THEN [v |-> "down", err |-> Nil, st |-> r.st, port |-> <<r.call>>]
    ELSE [v |-> "up", err |-> Nil, st |-> r.st, port |-> <<r.call>>]

\* basicService.Ping
Ping(st, fault) == UpOrDown(Port(st, "Ping", <<>>, fault))

PassThroughMutantSwallow(r, zero) ==
    [v |-> IF r.err # Nil THEN zero ELSE r.v, err |-> Nil, st |-> r.st,
     port |-> <<r.call>>]

\* what each to-do method does with the port's result r:
\* if err != nil { return zero, err }; return result, nil
PassThrough(r, zero) ==
    IF r.err # Nil
    THEN [v |-> zero, err |-> r.err, st |-> r.st, port |-> <<r.call>>]
    ELSE [v |-> r.v, err |-> Nil, st |-> r.st, port |-> <<r.call>>]

\* basicService.AddToDo
AddToDo(st, task, fault) == PassThrough(Port(st, "InsertToDo", task, fault), <<>>)

\* basicService.CompleteToDo
CompleteToDo(st, taskID, fault) == PassThrough(Port(st, "CompleteToDo", taskID, fault), <<>>)

\* basicService.UnDoToDo
UnDoToDo(st, taskID, fault) == PassThrough(Port(st, "UnDoToDo", taskID, fault), <<>>)

\* basicService.DeleteToDo
DeleteToDo(st, taskID, fault) == PassThrough(Port(st, "DeleteToDo", taskID, fault), <<>>)

\* basicService.GetAllToDo
GetAllToDo(st, fault) == PassThrough(Port(st, "GetAllToDo", <<>>, fault), <<>>)

(***************************************************************************)
(* The inputs the calls are made with.                                     *)
(***************************************************************************)
SumInputs ==
    (-Near..Near) \cup {intMin + k : k \in 0..Near} \cup {intMax - k : k \in 0..Near}

Text1 == <<"a", "b", "c", "d", "e", "f", "g", "h", "i", "j", "k", "l", "m">>
Text2 == <<"g", "h", "i", "j", "k", "l", "m", "n", "o", "p", "q", "r", "s">>
Prefix(t, n) == SubSeq(t, 1, n)
ConcatInputsA == {Prefix(Text1, n) : n \in 0..MaxStrLen}
ConcatInputsB == {Prefix(Text2, n) : n \in 0..MaxStrLen}

ToUpper(s) == [i \in 1..Len(s) |-> IF IsHexChar(s[i]) THEN UpperHexChars[HexVal(s[i]) + 1] ELSE s[i]]
ShortID == <<"a", "b", "c">>
NotHexID == [i \in 1..OidHexLen |-> IF i = 1 THEN "g" ELSE "0"]
TaskIDs ==
    {Hex(GenOID(k)) : k \in 1..(MaxItems + 1)}
        \cup {Hex(ClientOID), ToUpper(Hex(ClientOID)), ShortID, NotHexID}

ToDoItems ==
    {[ID |-> NilObjectID, Task |-> "buy milk", Status |-> s] : s \in BOOLEAN}
        \cup {[ID |-> ClientOID, Task |-> "walk dog", Status |-> s] : s \in BOOLEAN}

(***************************************************************************)
(* golang.org/x/time/rate and go-kit ratelimit, as addendpoint.New uses    *)
(* them: rate.NewLimiter(1 per second, burst) behind NewErroringLimiter.   *)
(* Tokens are counted in 1/TicksPerSec of a token, so that one tick of the *)
(* clock refills one unit.                                                 *)
(***************************************************************************)
ZeroTime == -1
ErrLimited == "ErrLimited"

Min(x, y) == IF x < y THEN x ELSE y

LimiterBurstMutantAllAlike(name) == 100

\* the burst given to rate.NewLimiter in each endpoint's block
LimiterBurst(name) == IF name = "Sum" THEN 1 ELSE 100

\* rate.NewLimiter: no tokens and the zero time, which the first advance
\* turns into a full bucket
NewLimiter == [tokens |-> 0, last |-> ZeroTime]

\* Limiter.advance: the tokens at time t
LimiterAdvance(lim, burst, t) ==
    LET maxElapsed == burst * TicksPerSec - lim.tokens
        elapsed == IF lim.last = ZeroTime THEN maxElapsed
                   ELSE Min(t - Min(lim.last, t), maxElapsed)
    IN Min(lim.tokens + elapsed, burst * TicksPerSec)

AllowMutantTokenStays(lim, burst, t) ==
    LET tokens == LimiterAdvance(lim, burst, t) - TicksPerSec
    IN IF tokens >= 0
       THEN [ok |-> TRUE, lim |-> [tokens |-> tokens + TicksPerSec, last |-> t]]
       ELSE [ok |-> FALSE, lim |-> [lim EXCEPT !.last = Min(lim.last, t)]]

\* Limiter.Allow = reserveN(now, 1, 0).ok
Allow(lim, burst, t) ==
    LET tokens == LimiterAdvance(lim, burst, t) - TicksPerSec
    IN IF tokens >= 0
       THEN [ok |-> TRUE, lim |-> [tokens |-> tokens, last |-> t]]
       ELSE [ok |-> FALSE, lim |-> [lim EXCEPT !.last = Min(lim.last, t)]]

(***************************************************************************)
(* github.com/sony/gobreaker with the zero Settings{}: MaxRequests 1,      *)
(* Interval 0, Timeout 60 s, ReadyToTrip = ConsecutiveFailures > 5.        *)
(***************************************************************************)
ErrOpenState == "ErrOpenState"
ErrTooManyRequests == "ErrTooManyRequests"
CbMaxRequests == 1
CbTimeoutSec == 60
CbMaxConsecutiveFailures == 5
CbTimeout == CbTimeoutSec * TicksPerSec

ClearCounts == [Requests |-> 0, TotalSuccesses |-> 0, TotalFailures |-> 0,
                ConsecutiveSuccesses |-> 0, ConsecutiveFailures |-> 0]

ReadyToTripMutantNever(counts) == FALSE

\* defaultReadyToTrip
ReadyToTrip(counts) == counts.ConsecutiveFailures > CbMaxConsecutiveFailures

\* CircuitBreaker.toNewGeneration
ToNewGeneration(cb, t) ==
    [cb EXCEPT !.generation = @ + 1,
               !.counts = ClearCounts,
               !.expiry = IF cb.state = "open" THEN t + cb.timeout ELSE ZeroTime]

\* CircuitBreaker.setState
SetState(cb, state, t) ==
    IF cb.state = state THEN cb ELSE ToNewGeneration([cb EXCEPT !.state = state], t)

\* gobreaker.NewCircuitBreaker(gobreaker.Settings{Timeout: timeoutSec seconds}):
\* a zero Timeout means the default
NewCircuitBreaker(timeoutSec) ==
    [state |-> "closed", generation |-> 1, counts |-> ClearCounts, expiry |-> ZeroTime,
     timeout |-> IF timeoutSec = 0 THEN CbTimeout ELSE timeoutSec * TicksPerSec]

\* CircuitBreaker.currentState
CurrentState(cb, t) ==
    CASE cb.state = "closed" ->
            IF cb.expiry # ZeroTime /\ cb.expiry < t THEN ToNewGeneration(cb, t) ELSE cb
      [] cb.state = "open" ->
            IF cb.expiry < t THEN SetState(cb, "half-open", t) ELSE cb
      [] OTHER -> cb

\* CircuitBreaker.beforeRequest
BeforeRequest(cb, t) ==
    LET c == CurrentState(cb, t)
    IN IF c.state = "open"
       THEN [cb |-> c, generation |-> c.generation, err |-> ErrOpenState]
       ELSE IF c.state = "half-open" /\ c.counts.Requests >= CbMaxRequests
       THEN [cb |-> c, generation |-> c.generation, err |-> ErrTooManyRequests]
       ELSE [cb |-> [c EXCEPT !.counts.Requests = @ + 1],
             generation |-> c.generation, err |-> Nil]

\* CircuitBreaker.onSuccess
OnSuccess(cb, t) ==
    LET counted == [cb EXCEPT !.counts.TotalSuccesses = @ + 1,
                              !.counts.ConsecutiveSuccesses = @ + 1,
                              !.counts.ConsecutiveFailures = 0]
    IN CASE cb.state = "closed" -> counted
         [] cb.state = "half-open" ->
               IF counted.counts.ConsecutiveSuccesses >= CbMaxRequests
               THEN SetState(counted, "closed", t) ELSE counted
         [] OTHER -> cb

OnFailureMutantTrialGoesOn(cb, t) ==
    IF cb.state = "closed" /\ ReadyToTrip([cb.counts EXCEPT !.ConsecutiveFailures = @ + 1])
    THEN SetState(cb, "open", t)
    ELSE [cb EXCEPT !.counts.TotalFailures = @ + 1,
                    !.counts.ConsecutiveFailures = @ + 1,
                    !.counts.ConsecutiveSuccesses = 0]

\* CircuitBreaker.onFailure
OnFailure(cb, t) ==
    LET counted == [cb EXCEPT !.counts.TotalFailures = @ + 1,
                              !.counts.ConsecutiveFailures = @ + 1,
                              !.counts.ConsecutiveSuccesses = 0]
    IN CASE cb.state = "closed" ->
               IF ReadyToTrip(counted.counts) THEN SetState(counted, "open", t) ELSE counted
         [] cb.state = "half-open" -> SetState(cb, "open", t)
         [] OTHER -> cb

\* CircuitBreaker.afterRequest
AfterRequest(cb, before, success, t) ==
    LET c == CurrentState(cb, t)
    IN IF c.generation # before THEN c
       ELSE IF success THEN OnSuccess(c, t) ELSE OnFailure(c, t)

(***************************************************************************)
(* addendpoint: the endpoints of the Set.  An endpoint is the list of its  *)
(* layers, outermost first; each decorator puts one layer in front of the  *)
(* endpoint it wraps.  A limiter or breaker layer names the instance made  *)
(* in the block it was created in.                                         *)
(***************************************************************************)
Routes == {"Sum", "Concat", "Ping", "AddToDo", "CompleteToDo", "UnDoToDo",
           "DeleteToDo", "GetAllToDo"}

Layer(k, n) == [k |-> k, n |-> n]

\* MakeSumEndpoint(svc) .. MakeGetAllToDoEndpoint(svc)
MakeEndpoint(name) == <<Layer("op", name)>>
\* ratelimit.NewErroringLimiter(rate.NewLimiter(..))(next)
ErroringLimiter(name, next) == <<Layer("lim", name)>> \o next
\* circuitbreaker.Gobreaker(gobreaker.NewCircuitBreaker(..))(next)
Gobreaker(name, next) == <<Layer("cb", name)>> \o next
\* opentracing.TraceServer(otTracer, label)(next)
TraceServer(label, next) == <<Layer("ot", label)>> \o next
\* zipkin.TraceEndpoint(zipkinTracer, label)(next)
TraceEndpoint(label, next) == <<Layer("zipkin", label)>> \o next
\* LoggingMiddleware(log.With(logger, "method", label))(next)
LoggingMiddleware(label, next) == <<Layer("log", label)>> \o next
\* InstrumentingMiddleware(duration.With("method", label))(next)
InstrumentingMiddleware(label, next) == <<Layer("instr", label)>> \o next

\* the first four assignments of a block: operation, limiter, breaker, opentracing
Traced(name, label) ==
    TraceServer(label, Gobreaker(name, ErroringLimiter(name, MakeEndpoint(name))))

ObservedMutantLoggingOutermost(label, next) ==
    LoggingMiddleware(label, InstrumentingMiddleware(label, next))

\* the last two assignments of a block
Observed(label, next) == InstrumentingMiddleware(label, LoggingMiddleware(label, next))

\* a block whose zipkin decorator wraps, and is assigned to, its own endpoint
Block(name, traceLabel, label, zk) ==
    Observed(label, IF zk THEN TraceEndpoint(traceLabel, Traced(name, traceLabel))
                          ELSE Traced(name, traceLabel))

\* addendpoint.New: in the Ping block the zipkin decorator wraps pingEndpoint
\* and is assigned to concatEndpoint
New(zk) ==
    [SumEndpoint |-> Block("Sum", "Sum", "Sum", zk),
     ConcatEndpoint |-> IF zk THEN TraceEndpoint("Ping", Traced("Ping", "Ping"))
                              ELSE Block("Concat", "Concat", "Concat", zk),
     PingEndpoint |-> Observed("Ping", Traced("Ping", "Ping")),
     AddToDoEndpoint |-> Block("AddToDo", "AddToDo", "AddToDo", zk),
     CompleteToDoEndPoint |-> Block("CompleteToDo", "CompleteToDo", "CompleteToDo", zk),
     UnDoToDoEndpoint |-> Block("UnDoToDo", "UndoToDo", "UnDoToDo", zk),
     DeleteToDoEndpoint |-> Block("DeleteToDo", "DeleteToDo", "DeleteToDo", zk),
     GetAllToDoEndpoint |-> Block("GetAllToDo", "GetAllToDo", "GetAllToDo", zk)]

NoResp == [type |-> "nil"]

\* a response struct: its type, the field the method's result goes in, and Err
Response(type, field, r) ==
    [k \in {"type", field, "Err"} |->
        CASE k = "type" -> type [] k = field -> r.v [] OTHER -> r.err]

\* what Sum and Concat return, the store untouched
Pure(r, st) == [v |-> r.v, err |-> r.err, st |-> st, port |-> <<>>]

\* the label each method of loggingMiddleware logs under "method"
LogMethod(m) ==
    CASE m = "CompleteToDo" -> "CompleteTod"
      [] m = "UnDoToDo" -> "UnDoTodo"
      [] OTHER -> m

\* loggingMiddleware.Sum .. GetAllToDo: the line the deferred call logs once
\* next has returned r
loggingMiddleware(m, args, r) ==
    [method |-> LogMethod(m), args |-> args, v |-> r.v, err |-> r.err]

instrumentingMiddlewareMutantNoError(m, r) ==
    CASE m = "Sum" -> [metric |-> "ints", add |-> r.v]
      [] m = "Concat" -> [metric |-> "chars", add |-> Len(r.v)]
      [] m = "Ping" -> [metric |-> "chars", add |-> 1]
      [] m = "GetAllToDo" -> [metric |-> "getToDo", method |-> "DeleteToDo", error |-> FALSE]
      [] OTHER -> [metric |-> "cubToDo", method |-> m, error |-> FALSE]

\* instrumentingMiddleware.Sum .. GetAllToDo: what is recorded once next has
\* returned r.  Sum and Concat add to a counter, Ping adds 1 to chars, the
\* to-do methods observe a duration; GetAllToDo's is labelled "DeleteToDo"
instrumentingMiddleware(m, r) ==
    CASE m = "Sum" -> [metric |-> "ints", add |-> r.v]
      [] m = "Concat" -> [metric |-> "chars", add |-> Len(r.v)]
      [] m = "Ping" -> [metric |-> "chars", add |-> 1]
      [] m = "GetAllToDo" ->
            [metric |-> "getToDo", method |-> "DeleteToDo", error |-> r.err # Nil]
      [] OTHER -> [metric |-> "cubToDo", method |-> m, error |-> r.err # Nil]

\* the call of method m of the service addservice.New returns (the basic
\* service inside the logging middleware inside the instrumenting
\* middleware), and the response built from its result r
Op(m, args, type, field, r) ==
    [resp |-> Response(type, field, r), st |-> r.st, port |-> r.port,
     core |-> <<[m |-> m, args |-> args]>>,
     logged |-> <<loggingMiddleware(m, args, r)>>,
     observed |-> <<instrumentingMiddleware(m, r)>>]

\* the bodies of MakeSumEndpoint .. MakeGetAllToDoEndpoint; the Ping endpoint
\* answers with a ConcatResponse
Operation(name, req, st, fault) ==
    CASE name = "Sum" ->
            Op("Sum", <<req.A, req.B>>, "SumResponse", "V", Pure(Sum(req.A, req.B), st))
      [] name = "Concat" ->
            Op("Concat", <<req.A, req.B>>, "ConcatResponse", "V",
               Pure(Concat(req.A, req.B), st))
      [] name = "Ping" ->
            Op("Ping", <<>>, "ConcatResponse", "V", Ping(st, fault))
      [] name = "AddToDo" ->
            Op("AddToDo", <<req>>, "AddToDoResponse", "TaskID", AddToDo(st, req, fault))
      [] name = "CompleteToDo" ->
            Op("CompleteToDo", <<req.TaskID>>, "CompleteToDoResponse", "TaskID",
               CompleteToDo(st, req.TaskID, fault))
      [] name = "UnDoToDo" ->
            Op("UnDoToDo", <<req.TaskID>>, "UnDoToDoResponse", "TaskID",
               UnDoToDo(st, req.TaskID, fault))
      [] name = "DeleteToDo" ->
            Op("DeleteToDo", <<req.TaskID>>, "DeleteToDoResponse", "TaskID",
               DeleteToDo(st, req.TaskID, fault))
      [] name = "GetAllToDo" ->
            Op("GetAllToDo", <<>>, "GetAllToDoResponse", "Todos", GetAllToDo(st, fault))

\* what an endpoint hands back: the response, the endpoint's error, the state
\* R of the limiters, breakers and store afterwards, the layers entered, and
\* the service and port calls made
OperationLayerMutantReturnsErr(name, req, R, fault) ==
    CHOOSE x \in {[resp |-> o.resp, err |-> o.resp.Err, R |-> [R EXCEPT !.st = o.st],
                   trace |-> <<Layer("op", name)>>, core |-> o.core, port |-> o.port,
                   logged |-> o.logged, observed |-> o.observed] :
                        o \in {Operation(name, req, R.st, fault)}} : TRUE

\* return XResponse{.., Err: err}, nil
Respond(name, o, R) ==
    [resp |-> o.resp, err |-> Nil, R |-> [R EXCEPT !.st = o.st],
     trace |-> <<Layer("op", name)>>, core |-> o.core, port |-> o.port,
     logged |-> o.logged, observed |-> o.observed]

\* the endpoint Make<name>Endpoint returns: the response carries the
\* method's error, the endpoint's own error is nil
OperationLayer(name, req, R, fault) == Respond(name, Operation(name, req, R.st, fault), R)

\* an endpoint that ends the request with err, without calling next
Refused(L, err, R) ==
    [resp |-> NoResp, err |-> err, R |-> R, trace |-> <<L>>, core |-> <<>>, port |-> <<>>,
     logged |-> <<>>, observed |-> <<>>]

\* a layer that was entered and called next, which returned inner
Entered(L, inner) == [inner EXCEPT !.trace = <<L>> \o @]

RECURSIVE Run(_, _, _, _, _)
RECURSIVE HttpLayer(_, _, _, _, _)

LimiterLayerMutantLetsThrough(L, next, req, R, t, fault) ==
    LET a == Allow(R.lim[L.n], LimiterBurst(L.n), t)
    IN Entered(L, [Run(next, req, [R EXCEPT !.lim[L.n] = a.lim], t, fault)
                      EXCEPT !.err = IF a.ok THEN @ ELSE ErrLimited])

\* the endpoint NewErroringLimiter returns:
\* if !limit.Allow() { return nil, ErrLimited }; return next(ctx, request)
LimiterLayer(L, next, req, R, t, fault) ==
    LET a == Allow(R.lim[L.n], LimiterBurst(L.n), t)
    IN IF ~a.ok THEN Refused(L, ErrLimited, [R EXCEPT !.lim[L.n] = a.lim])
       ELSE Entered(L, Run(next, req, [R EXCEPT !.lim[L.n] = a.lim], t, fault))

SettledMutantAllSucceed(L, generation, inner, t) ==
    [inner EXCEPT !.R.cb[L.n] = AfterRequest(@, generation, TRUE, t)]

\* cb.afterRequest(generation, err == nil) once next has returned inner
Settled(L, generation, inner, t) ==
    [inner EXCEPT !.R.cb[L.n] = AfterRequest(@, generation, inner.err = Nil, t)]

\* the endpoint Gobreaker returns = CircuitBreaker.Execute:
\* beforeRequest, then next, then afterRequest
BreakerLayer(L, next, req, R, t, fault) ==
    LET b == BeforeRequest(R.cb[L.n], t)
    IN IF b.err # Nil THEN Refused(L, b.err, [R EXCEPT !.cb[L.n] = b.cb])
       ELSE Entered(L, Settled(L, b.generation,
                Run(next, req, [R EXCEPT !.cb[L.n] = b.cb], t, fault), t))

\* the tracing, logging and instrumenting decorators return what next returns
PassLayer(L, next, req, R, t, fault) == Entered(L, Run(next, req, R, t, fault))

\* calling the endpoint ep with request req at time t
Run(ep, req, R, t, fault) ==
    CASE Head(ep).k = "op" -> OperationLayer(Head(ep).n, req, R, fault)
      [] Head(ep).k = "lim" -> LimiterLayer(Head(ep), Tail(ep), req, R, t, fault)
      [] Head(ep).k = "cb" -> BreakerLayer(Head(ep), Tail(ep), req, R, t, fault)
      [] Head(ep).k = "http" -> HttpLayer(Head(ep), req, R, t, fault)
      [] OTHER -> PassLayer(Head(ep), Tail(ep), req, R, t, fault)

(***************************************************************************)
(* addtransport: the HTTP server of NewHTTPHandler.                        *)
(***************************************************************************)
StatusOK == 200
StatusBadRequest == 400
StatusInternalServerError == 500
DecodeError == "DecodeError"

Malformed == [kind |-> "malformed"]
Json(val) == [kind |-> "json", val |-> val]

\* the endpoint registered on each path
EndpointOf(set, route) ==
    CASE route = "Sum" -> set.SumEndpoint
      [] route = "Concat" -> set.ConcatEndpoint
      [] route = "Ping" -> set.PingEndpoint
      [] route = "AddToDo" -> set.AddToDoEndpoint
      [] route = "CompleteToDo" -> set.CompleteToDoEndPoint
      [] route = "UnDoToDo" -> set.UnDoToDoEndpoint
      [] route = "DeleteToDo" -> set.DeleteToDoEndpoint
      [] route = "GetAllToDo" -> set.GetAllToDoEndpoint

DecodeRequestMutantAllDecode(route, body) ==
    IF body.kind = "malformed" THEN [req |-> <<>>, err |-> DecodeError]
    ELSE [req |-> body.val, err |-> Nil]

\* decodeHTTPSumRequest .. decodeHTTPGetAllToDoRequest
DecodeRequest(route, body) ==
    IF route \in {"Ping", "GetAllToDo"} THEN [req |-> <<>>, err |-> Nil]
    ELSE IF body.kind = "malformed" THEN [req |-> <<>>, err |-> DecodeError]
    ELSE [req |-> body.val, err |-> Nil]

err2codeMutantAlwaysInternal(err) == StatusInternalServerError

\* err2code
err2code(err) ==
    IF err \in {ErrTwoZeroes, ErrMaxSizeExceeded, ErrIntOverflow}
    THEN StatusBadRequest ELSE StatusInternalServerError

\* errorEncoder
errorEncoder(err) == [status |-> err2code(err), payload |-> [kind |-> "error", error |-> err]]

\* the JSON form of a response: Err is tagged json:"-"
JsonOf(resp) ==
    CASE resp.type \in {"SumResponse", "ConcatResponse", "PingResponse"} -> [v |-> resp.V]
      [] resp.type = "GetAllToDoResponse" -> [todos |-> resp.Todos]
      [] OTHER -> [taskID |-> resp.TaskID]

\* encodeHTTPGenericResponse
encodeHTTPGenericResponse(resp) ==
    IF resp.type # "nil" /\ resp.Err # Nil THEN errorEncoder(resp.Err)
    ELSE [status |-> StatusOK, payload |-> [kind |-> "json", json |-> JsonOf(resp)]]

(***************************************************************************)
(* One HTTP request from decoding to the response written, and what the    *)
(* traffic so far has been.  W is the whole state of the server.           *)
(***************************************************************************)
\* the breaker opens on the sixth consecutive failure
TripThreshold == 6

NoRequest ==
    [route |-> "none", body |-> Malformed, at |-> 0, seq |-> 0,
     trace |-> <<>>, core |-> <<>>, port |-> <<>>, logged |-> <<>>, observed |-> <<>>,
     resp |-> NoResp, err |-> Nil, status |-> 0, payload |-> [kind |-> "none"],
     cb0 |-> NewCircuitBreaker(0), cb1 |-> NewCircuitBreaker(0),
     lim0 |-> NewLimiter, lim1 |-> NewLimiter,
     prevAdmit |-> ZeroTime, admittedBefore |-> 0, prevTripped |-> ZeroTime]

NoHistory ==
    [warm |-> 0, admitted |-> 0, lastAdmit |-> ZeroTime, run |-> 0, trippedAt |-> ZeroTime]

Has(trace, k) == \E i \in 1..Len(trace) : trace[i].k = k
InstanceOf(ep, k) == ep[CHOOSE i \in 1..Len(ep) : ep[i].k = k].n

\* what an observer of the breaker's wrapped endpoint counts: consecutive
\* failures, and the time of the failure that opened (or reopened) the circuit
Observe(h, out, t) ==
    LET invoked == Has(out.trace, "lim")
        failed == invoked /\ out.err # Nil
    IN [warm |-> h.warm,
        admitted |-> IF Has(out.trace, "op") THEN h.admitted + 1 ELSE h.admitted,
        lastAdmit |-> IF Has(out.trace, "op") THEN t ELSE h.lastAdmit,
        run |-> IF ~invoked THEN h.run ELSE IF failed THEN h.run + 1 ELSE 0,
        trippedAt |-> IF ~invoked THEN h.trippedAt
                      ELSE IF ~failed THEN ZeroTime
                      ELSE IF h.run + 1 = TripThreshold \/ h.trippedAt # ZeroTime THEN t
                      ELSE h.trippedAt]

\* the state and the record of the request once the endpoint has returned out
Written(W, route, body, ep, out) ==
    LET http == IF out.err # Nil THEN errorEncoder(out.err)
                ELSE encodeHTTPGenericResponse(out.resp)
        cbn == InstanceOf(ep, "cb")
        limn == InstanceOf(ep, "lim")
    IN [now |-> W.now, lim |-> out.R.lim, cb |-> out.R.cb, st |-> out.R.st,
        calls |-> W.calls + 1,
        hist |-> Observe(W.hist, out, W.now),
        last |-> [route |-> route, body |-> body, at |-> W.now, seq |-> W.calls + 1,
                  trace |-> out.trace, core |-> out.core, port |-> out.port,
                  logged |-> out.logged, observed |-> out.observed,
                  resp |-> out.resp, err |-> out.err,
                  status |-> http.status, payload |-> http.payload,
                  cb0 |-> W.cb[cbn], cb1 |-> out.R.cb[cbn],
                  lim0 |-> W.lim[limn], lim1 |-> out.R.lim[limn],
                  prevAdmit |-> W.hist.lastAdmit,
                  admittedBefore |-> W.hist.admitted,
                  prevTripped |-> W.hist.trippedAt]]

\* the handler's steps: dec, then the endpoint, then enc or the error encoder
Handle(W, route, body, ep, d, fault) ==
    Written(W, route, body, ep,
        IF d.err # Nil
        THEN [resp |-> NoResp, err |-> d.err,
              R |-> [lim |-> W.lim, cb |-> W.cb, st |-> W.st],
              trace |-> <<>>, core |-> <<>>, port |-> <<>>,
              logged |-> <<>>, observed |-> <<>>]
        ELSE Run(ep, d.req, [lim |-> W.lim, cb |-> W.cb, st |-> W.st], W.now, fault))

\* httptransport.Server.ServeHTTP for the handler registered on route
ServeHTTP(W, zk, route, body, fault) ==
    Handle(W, route, body, EndpointOf(New(zk), route), DecodeRequest(route, body), fault)

(***************************************************************************)
(* The traffic: requests to one route, and time passing.                   *)
(***************************************************************************)
\* at most this many requests after the initial state
MaxCalls == 4
\* at most this many advances of the clock
MaxAdvances == 2

Bodies(route) ==
    CASE route = "Sum" ->
            {Json([A |-> 1, B |-> 2]), Json([A |-> 0, B |-> 0]),
             Json([A |-> intMax, B |-> 1]), Json([A |-> -1, B |-> -2]), Malformed}
      [] route = "Concat" ->
            {Json([A |-> Prefix(Text1, 2), B |-> Prefix(Text2, 2)]),
             Json([A |-> Prefix(Text1, 6), B |-> Prefix(Text2, 5)]), Malformed}
      [] route = "AddToDo" ->
            {Json([ID |-> NilObjectID, Task |-> "buy milk", Status |-> FALSE]), Malformed}
      [] route \in {"CompleteToDo", "UnDoToDo", "DeleteToDo"} ->
            {Json([TaskID |-> Hex(GenOID(1))]), Json([TaskID |-> ShortID]), Malformed}
      [] OTHER -> {Json(<<>>), Malformed}

Faults(route) == IF route \in {"Sum", "Concat"} THEN {FALSE} ELSE BOOLEAN

\* the clock moves by a tick, or by the breaker's timeout
Durations == {1, CbTimeout}

\* no client has been made
NoReply ==
    [op |-> "none", args |-> <<>>, seq |-> 0, at |-> 0, trace |-> <<>>, sent |-> <<>>,
     status |-> 0, payload |-> [kind |-> "none"],
     resp |-> NoResp, v |-> <<>>, err |-> Nil, panic |-> FALSE]

NoClient ==
    /\ clientZipkin = FALSE
    /\ clientLimiter = NewLimiter
    /\ clientBreakers = [n \in Routes |-> NewCircuitBreaker(0)]
    /\ reply = NoReply

\* no call has gone through the breaker
NoEvent ==
    [kind |-> "none", at |-> 0, generation |-> 0, err |-> Nil,
     cb0 |-> NewCircuitBreaker(0), cb1 |-> NewCircuitBreaker(0)]

\* no item has been added
NoLedger == [live |-> <<>>, fresh |-> TRUE]

\* nothing has been called directly
NoRet == [method |-> "none", args |-> <<>>, v |-> <<>>, err |-> Nil, port |-> <<>>]

World ==
    [now |-> now, lim |-> limiters, cb |-> breakers,
     st |-> [coll |-> collection, oid |-> nextOID],
     last |-> last, hist |-> hist, calls |-> calls]

NewWorld ==
    [now |-> 0, lim |-> [n \in Routes |-> NewLimiter],
     cb |-> [n \in Routes |-> NewCircuitBreaker(0)],
     st |-> [coll |-> <<>>, oid |-> 0],
     last |-> NoRequest, hist |-> NoHistory, calls |-> 0]

\* the requests that bring a bucket close to empty: well-formed, and on the
\* to-do routes with the store failing, so that nothing is stored
WarmBody(route) ==
    CASE route = "Sum" -> Json([A |-> 1, B |-> 2])
      [] route = "Concat" -> Json([A |-> Prefix(Text1, 2), B |-> Prefix(Text2, 2)])
      [] route = "AddToDo" -> Json([ID |-> NilObjectID, Task |-> "buy milk", Status |-> FALSE])
      [] route \in {"CompleteToDo", "UnDoToDo", "DeleteToDo"} -> Json([TaskID |-> Hex(GenOID(1))])
      [] OTHER -> Json(<<>>)

RECURSIVE WarmUp(_, _, _, _)
\* the state after n such requests, back to back
WarmUp(W, zk, route, n) ==
    IF n = 0 THEN W
    ELSE IF n = 1 THEN ServeHTTP(W, zk, route, WarmBody(route), TRUE \in Faults(route))
    ELSE CHOOSE Wn \in {WarmUp(Wh, zk, route, n - (n \div 2)) :
            Wh \in {WarmUp(W, zk, route, n \div 2)}} : TRUE

\* the requests the breaker still lets fail after the warm-up
Spare == 1

\* the server starts fresh, or with all but one token of the route's bucket
\* used, or with the bucket empty and the breaker Spare failures from opening
WarmChoices(route, zk) ==
    {0, LimiterBurst(InstanceOf(EndpointOf(New(zk), route), "lim")) - 1,
        LimiterBurst(InstanceOf(EndpointOf(New(zk), route), "lim")) + TripThreshold - Spare}

Become(W) ==
    /\ now = W.now
    /\ limiters = W.lim
    /\ breakers = W.cb
    /\ collection = W.st.coll
    /\ nextOID = W.st.oid
    /\ last = W.last
    /\ hist = [W.hist EXCEPT !.warm = W.calls]
    /\ calls = W.calls

Init ==
    /\ zipkinTracer \in BOOLEAN
    /\ focus \in Routes
    /\ \E n \in WarmChoices(focus, zipkinTracer) :
          \E W \in {WarmUp(NewWorld, zipkinTracer, focus, n)} : Become(W)
    /\ ret = NoRet
    /\ advances = 0
    /\ inflight = {}
    /\ event = NoEvent
    /\ NoClient
    /\ ledger = NoLedger

\* a request arrives on the route and is handled to its end
Request ==
    \E body \in Bodies(focus), fault \in Faults(focus) :
        /\ calls < hist.warm + MaxCalls
        /\ (focus = "AddToDo" /\ body # Malformed /\ ~fault) => nextOID < MaxItems
        /\ \E W \in {ServeHTTP(World, zipkinTracer, focus, body, fault)} :
              /\ limiters' = W.lim
              /\ breakers' = W.cb
              /\ collection' = W.st.coll
              /\ nextOID' = W.st.oid
              /\ last' = W.last
              /\ hist' = W.hist
              /\ calls' = W.calls
        /\ UNCHANGED <<zipkinTracer, focus, now, ret, advances, inflight, event, ledger>>
        /\ UNCHANGED clientVars

\* time passes
Advance ==
    \E d \in Durations :
        /\ advances < MaxAdvances
        /\ now' = now + d
        /\ advances' = advances + 1
        /\ UNCHANGED <<zipkinTracer, focus, limiters, breakers, collection, nextOID,
                       ret, last, hist, calls, inflight, event, ledger>>
        /\ UNCHANGED clientVars

Next ==
    \/ Request
    \/ Advance

Spec == Init /\ [][Next]_vars

(***************************************************************************)
(* Direct calls of the operation core.                                     *)
(***************************************************************************)
StoreState == [coll |-> collection, oid |-> nextOID]

ServerUnchanged ==
    UNCHANGED <<zipkinTracer, focus, now, limiters, breakers, last, hist, calls, advances,
                inflight, event, clientZipkin, clientLimiter, clientBreakers, reply>>

\* the ObjectID a task ID names
OidOf(taskID) == ObjectIDFromHex(taskID).id

\* the items a caller expects after one more call: an item is there from the
\* AddToDo that returned its ID until a DeleteToDo of that ID, with the status
\* given when it was added or by the last CompleteToDo or UnDoToDo of that ID;
\* fresh tells whether the last ID AddToDo returned was then in use
Expect(l, method, args, r) ==
    IF r.err # Nil THEN l
    ELSE CASE method = "AddToDo" ->
                [live |-> Append(l.live, [id |-> OidOf(r.v), status |-> args[1].Status,
                                          by |-> "AddToDo"]),
                 fresh |-> \A i \in 1..Len(l.live) : l.live[i].id # OidOf(r.v)]
           [] method \in {"CompleteToDo", "UnDoToDo"} ->
                [l EXCEPT !.live =
                    [i \in 1..Len(l.live) |->
                        IF l.live[i].id = OidOf(args[1])
                        THEN [id |-> l.live[i].id, status |-> method = "CompleteToDo",
                              by |-> method]
                        ELSE l.live[i]]]
           [] method = "DeleteToDo" ->
                [l EXCEPT !.live = SelectSeq(l.live, LAMBDA x : x.id # OidOf(args[1]))]
           [] OTHER -> l

Returned(method, args, r) ==
    /\ ledger' = Expect(ledger, method, args, r)
    /\ ret' = [method |-> method, args |-> args, v |-> r.v, err |-> r.err, port |-> r.port]
    /\ collection' = r.st.coll
    /\ nextOID' = r.st.oid
    /\ ServerUnchanged

CoreSum ==
    \E a \in SumInputs, b \in SumInputs :
        LET r == Sum(a, b)
        IN /\ ret' = [method |-> "Sum", args |-> <<a, b>>, v |-> r.v, err |-> r.err, port |-> <<>>]
           /\ UNCHANGED <<collection, nextOID, ledger>>
           /\ ServerUnchanged

CoreConcat ==
    \E a \in ConcatInputsA, b \in ConcatInputsB :
        LET r == Concat(a, b)
        IN /\ ret' = [method |-> "Concat", args |-> <<a, b>>, v |-> r.v, err |-> r.err, port |-> <<>>]
           /\ UNCHANGED <<collection, nextOID, ledger>>
           /\ ServerUnchanged

CorePing ==
    \E fault \in BOOLEAN : Returned("Ping", <<>>, Ping(StoreState, fault))

CoreAddToDo ==
    \E task \in ToDoItems, fault \in BOOLEAN :
        /\ task.ID = NilObjectID => nextOID < MaxItems
        /\ Returned("AddToDo", <<task>>, AddToDo(StoreState, task, fault))

CoreCompleteToDo ==
    \E id \in TaskIDs, fault \in BOOLEAN :
        Returned("CompleteToDo", <<id>>, CompleteToDo(StoreState, id, fault))

CoreUnDoToDo ==
    \E id \in TaskIDs, fault \in BOOLEAN :
        Returned("UnDoToDo", <<id>>, UnDoToDo(StoreState, id, fault))

CoreDeleteToDo ==
    \E id \in TaskIDs, fault \in BOOLEAN :
        Returned("DeleteToDo", <<id>>, DeleteToDo(StoreState, id, fault))

CoreGetAllToDo ==
    \E fault \in BOOLEAN : Returned("GetAllToDo", <<>>, GetAllToDo(StoreState, fault))

InitCore ==
    /\ zipkinTracer = FALSE
    /\ focus = "none"
    /\ now = 0
    /\ limiters = [n \in Routes |-> NewLimiter]
    /\ breakers = [n \in Routes |-> NewCircuitBreaker(0)]
    /\ collection = <<>>
    /\ nextOID = 0
    /\ ret = NoRet
    /\ last = NoRequest
    /\ hist = NoHistory
    /\ calls = 0
    /\ advances = 0
    /\ inflight = {}
    /\ event = NoEvent
    /\ NoClient
    /\ ledger = NoLedger

\* the pure methods, over all their inputs
NextPure ==
    \/ CoreSum
    \/ CoreConcat

SpecPure == InitCore /\ [][NextPure]_vars

\* the methods that go to the persistence port
NextCore ==
    \/ CorePing
    \/ CoreAddToDo
    \/ CoreCompleteToDo
    \/ CoreUnDoToDo
    \/ CoreDeleteToDo
    \/ CoreGetAllToDo

SpecCore == InitCore /\ [][NextCore]_vars

(***************************************************************************)
(* The operation core: properties of the direct calls.                     *)
(***************************************************************************)
RetA == ret.args[1]
RetB == ret.args[2]

\* C1: for a, b not both zero whose sum lies in [-2^31, 2^31-1], Sum(a, b)
\* returns exactly a+b with a nil error.
C1_SumReturnsSum ==
    (ret.method = "Sum" /\ ~(RetA = 0 /\ RetB = 0) /\ InRange32(RetA, RetB))
        => (ret.err = Nil /\ ret.v = RetA + RetB)

\* the largest sum that is still returned: (2^31-2) + 1
C1_Witness ==
    /\ ret.method = "Sum"
    /\ ret.args = <<intMax - 1, 1>>
    /\ ret.err = Nil
    /\ ret.v = 2147483647

\* C2: Sum(0, 0) fails with ErrTwoZeroes and value 0, and no other pair of
\* inputs produces ErrTwoZeroes.
C2_TwoZeroesOnly ==
    ret.method = "Sum" =>
        /\ (ret.err = ErrTwoZeroes) <=> (RetA = 0 /\ RetB = 0)
        /\ (RetA = 0 /\ RetB = 0) => ret.v = 0

C2_Witness ==
    /\ ret.method = "Sum"
    /\ ret.args = <<0, 0>>
    /\ ret.err = ErrTwoZeroes
    /\ ret.v = 0

\* C3: Sum(a, b) fails with ErrIntOverflow, value 0, exactly when a+b is
\* outside [-2^31, 2^31-1], above or below.
C3_OverflowExactly ==
    ret.method = "Sum" =>
        /\ (ret.err = ErrIntOverflow) <=> ~InRange32(RetA, RetB)
        /\ ret.err = ErrIntOverflow => ret.v = 0

\* Sum(2147483647, 1)
C3_Witness ==
    /\ ret.method = "Sum"
    /\ ret.args = <<2147483647, 1>>
    /\ ret.err = ErrIntOverflow
    /\ ret.v = 0

\* the same below the range: Sum(-2147483648, -1)
C3_WitnessBelow ==
    /\ ret.method = "Sum"
    /\ ret.args = <<intMin, -1>>
    /\ ret.err = ErrIntOverflow

\* C4: Concat(a, b) returns a+b with a nil error when len(a)+len(b) <= 10,
\* and the empty string with ErrMaxSizeExceeded when it is more.
C4_ConcatLimit ==
    ret.method = "Concat" =>
        IF Len(RetA) + Len(RetB) <= 10
        THEN ret.err = Nil /\ ret.v = RetA \o RetB /\ Len(ret.v) = Len(RetA) + Len(RetB)
        ELSE ret.err = ErrMaxSizeExceeded /\ ret.v = <<>>

\* a result of exactly 10 characters is accepted
C4_Witness ==
    /\ ret.method = "Concat"
    /\ ret.args = <<<<"a", "b", "c", "d", "e", "f">>, <<"g", "h", "i", "j">>>>
    /\ ret.err = Nil
    /\ ret.v = <<"a", "b", "c", "d", "e", "f", "g", "h", "i", "j">>

\* "abcdef" and "ghijk", 11 characters, are refused
C4_WitnessRefused ==
    /\ ret.method = "Concat"
    /\ ret.args = <<<<"a", "b", "c", "d", "e", "f">>, <<"g", "h", "i", "j", "k">>>>
    /\ ret.err = ErrMaxSizeExceeded

\* C5: Ping never returns a non-nil error: "up" when the port's Ping
\* succeeds, "down" when the port's Ping returns an error.
C5_PingNeverFails ==
    ret.method = "Ping" =>
        /\ ret.err = Nil
        /\ Len(ret.port) = 1
        /\ ret.port[1].m = "Ping"
        /\ ret.v = (IF ret.port[1].err = Nil THEN "up" ELSE "down")

C5_Witness ==
    /\ ret.method = "Ping"
    /\ ret.port[1].err = StoreErr
    /\ ret.v = "down"
    /\ ret.err = Nil

\* C6: each to-do method calls the port's corresponding method exactly once
\* with its own argument, and returns the port's error with the zero value,
\* or the port's value with a nil error.
PortMethodOf(method) == IF method = "AddToDo" THEN "InsertToDo" ELSE method
ToDoMethods == {"AddToDo", "CompleteToDo", "UnDoToDo", "DeleteToDo", "GetAllToDo"}

C6_PassThrough ==
    ret.method \in ToDoMethods =>
        /\ Len(ret.port) = 1
        /\ ret.port[1].m = PortMethodOf(ret.method)
        /\ ret.port[1].arg = (IF ret.method = "GetAllToDo" THEN <<>> ELSE ret.args[1])
        /\ IF ret.port[1].err # Nil
           THEN ret.err = ret.port[1].err /\ ret.v = <<>>
           ELSE ret.err = Nil /\ ret.v = ret.port[1].v

\* a store error surfaces unchanged
C6_Witness ==
    /\ ret.method = "DeleteToDo"
    /\ ret.port = <<[m |-> "DeleteToDo", arg |-> ShortID, v |-> <<>>, err |-> ErrInvalidHex]>>
    /\ ret.err = ErrInvalidHex
    /\ ret.v = <<>>

\* a store value surfaces unchanged
C6_WitnessValue ==
    /\ ret.method = "GetAllToDo"
    /\ ret.err = Nil
    /\ Len(ret.v) = 2
    /\ ret.v = collection

(***************************************************************************)
(* The server: properties of the request handled last.                     *)
(***************************************************************************)
Handled == last.route # "none"
\* the request got as far as the limiter, the operation
ReachedLimiter == Has(last.trace, "lim")
ReachedOperation == Has(last.trace, "op")
\* the request was handled by a step of the server, not before its first
Stepped == last.seq > hist.warm

\* C7: every request a server endpoint handles ends with exactly one of a
\* response and a nil endpoint error, or a non-nil endpoint error and no
\* response, whichever of decoding, the limiter, the breaker and the operation
\* ends it; what is written is the response, or the error that ended it.
C7_ResponseOrError ==
    Handled =>
        /\ (last.resp # NoResp) # (last.err # Nil)
        /\ last.err # Nil => last.payload = [kind |-> "error", error |-> last.err]
        /\ last.err = Nil =>
              IF last.resp.Err # Nil
              THEN last.payload = [kind |-> "error", error |-> last.resp.Err]
              ELSE last.status = 200 /\ last.payload.kind = "json"

\* a response that carries a business error, and no endpoint error
C7_Witness ==
    /\ Stepped
    /\ last.route = "Sum"
    /\ ReachedOperation
    /\ last.resp = [type |-> "SumResponse", V |-> 0, Err |-> ErrTwoZeroes]
    /\ last.err = Nil
    /\ last.status = 400

\* an endpoint error from each layer that can end a request early
C7_WitnessDecode == Stepped /\ last.err = DecodeError /\ last.resp = NoResp /\ last.trace = <<>>
C7_WitnessLimiter == Stepped /\ last.err = ErrLimited /\ last.resp = NoResp
C7_WitnessBreaker == Stepped /\ last.err = ErrOpenState /\ last.resp = NoResp

\* C8: a request the limiter rejects for an empty bucket, or the breaker
\* rejects for being open, ends with that endpoint error before the operation
\* runs: no service method and no port method is called for it.
C8_RejectedBeforeOperation ==
    (Handled /\ last.err \in {ErrLimited, ErrOpenState, ErrTooManyRequests}) =>
        /\ ~ReachedOperation
        /\ last.core = <<>>
        /\ last.port = <<>>
        /\ last.resp = NoResp

\* a to-do request rejected by the limiter while the store would have answered
C8_Witness ==
    /\ Stepped
    /\ last.route = "AddToDo"
    /\ last.body # Malformed
    /\ last.err = ErrLimited
    /\ last.core = <<>>
    /\ last.port = <<>>
    /\ collection = <<>>

\* and one rejected by the open breaker
C8_WitnessOpen ==
    /\ Stepped
    /\ last.route = "DeleteToDo"
    /\ last.err = ErrOpenState
    /\ ~ReachedLimiter
    /\ last.port = <<>>

\* the burst the limiter of each route is said to have
SaidBurst(route) == IF route = "Sum" THEN 1 ELSE 100
\* the last request was admitted less than a second after the one before
WithinASecond == last.prevAdmit # ZeroTime /\ last.at - last.prevAdmit < TicksPerSec

\* C9: a Sum call that reaches the limiter is rejected exactly when less than
\* one second has passed since the Sum call admitted before it (burst 1 at one
\* token per second); on every route a call is rejected only with the burst
\* (1 for Sum, 100 for the other seven) admitted already and less than a
\* second after the last admission, the admitted calls never exceed the burst
\* plus one per second, and a rejected call returns at once and reserves
\* nothing.
C9_TokenBucket ==
    (Handled /\ ReachedLimiter) =>
        /\ last.route = "Sum" => (last.err = ErrLimited <=> WithinASecond)
        /\ last.err = ErrLimited =>
              /\ WithinASecond
              /\ last.admittedBefore >= SaidBurst(last.route)
              /\ last.lim1 = last.lim0
              /\ ~ReachedOperation
        /\ last.err # ErrLimited => ReachedOperation
        /\ hist.admitted <= SaidBurst(last.route) + (last.at \div TicksPerSec)

\* the second of two Sum calls with no time between them is rejected
C9_Witness ==
    /\ Stepped
    /\ last.route = "Sum"
    /\ last.err = ErrLimited
    /\ last.prevAdmit = last.at
    /\ last.admittedBefore = 1

\* the second Sum call exactly one second after the first is admitted
C9_WitnessAfterASecond ==
    /\ Stepped
    /\ last.route = "Sum"
    /\ ReachedOperation
    /\ last.admittedBefore = 1
    /\ last.at - last.prevAdmit = TicksPerSec

\* the 101st Concat call at time 0 is rejected
C9_WitnessBurst100 ==
    /\ Stepped
    /\ last.route = "Concat"
    /\ last.err = ErrLimited
    /\ last.admittedBefore = 100
    /\ last.at = 0

\* C10: the failure that makes six in a row opens the closed breaker and no
\* other call does; from then on, through the 60 seconds of the open state,
\* every call of the endpoint fails with the circuit-open error and the
\* wrapped endpoint is not called.
C10_TripsAndStaysOpen ==
    (Handled /\ last.err # DecodeError) =>
        /\ (last.cb0.state = "closed" /\ last.cb1.state = "open")
              <=> (ReachedLimiter /\ last.err # Nil /\ hist.run = TripThreshold)
        /\ (last.prevTripped # ZeroTime /\ last.at - last.prevTripped <= 60 * TicksPerSec) =>
              /\ last.err = ErrOpenState
              /\ ~ReachedLimiter
              /\ ~ReachedOperation
              /\ last.cb1.state = "open"

\* the sixth failure in a row opens the breaker
C10_Witness ==
    /\ Stepped
    /\ hist.run = TripThreshold
    /\ last.cb0.state = "closed"
    /\ last.cb0.counts.ConsecutiveFailures = 5
    /\ last.cb1.state = "open"

\* a call exactly 60 seconds after the breaker opened is still refused
C10_WitnessAtTimeout ==
    /\ Stepped
    /\ last.err = ErrOpenState
    /\ last.prevTripped # ZeroTime
    /\ last.at - last.prevTripped = 60 * TicksPerSec
    /\ ~ReachedLimiter

\* and a call later than that is let through
C10_WitnessAfterTimeout ==
    /\ Stepped
    /\ last.prevTripped # ZeroTime
    /\ last.at - last.prevTripped > 60 * TicksPerSec
    /\ ReachedOperation
    /\ last.cb1.state = "closed"


(***************************************************************************)
(* One circuit breaker as Gobreaker wraps it around an endpoint, with      *)
(* calls that overlap: CircuitBreaker.Execute takes the breaker's mutex in *)
(* beforeRequest and again in afterRequest, and the wrapped endpoint runs  *)
(* in between, succeeding or failing.  The breaker is the one of route     *)
(* focus, made with the settings of addendpoint.New or of NewHTTPClient.   *)
(***************************************************************************)
\* Timeout of the client's Sum breaker, and of the client's other breakers
ClientSumTimeoutSec == 30
ClientTimeoutSec == 10

\* at most this many calls are inside Execute at once
MaxInFlight == 2

\* the Timeout settings the code gives the breaker of an operation:
\* Settings{} on the server, Settings{Name, Timeout} in the client
TimeoutSettings(name) ==
    {0, IF name = "Sum" THEN ClientSumTimeoutSec ELSE ClientTimeoutSec}

RECURSIVE AfterFailures(_, _, _)
\* the breaker after n calls, one after the other at time t, that all failed
AfterFailures(cb, n, t) ==
    IF n = 0 THEN cb
    ELSE AfterFailures(
            AfterRequest(BeforeRequest(cb, t).cb, BeforeRequest(cb, t).generation, FALSE, t),
            n - 1, t)

InitBreaker ==
    /\ zipkinTracer = FALSE
    /\ focus \in {"Sum", "Ping"}
    /\ now = 0
    /\ limiters = [n \in Routes |-> NewLimiter]
    /\ \E sec \in TimeoutSettings(focus), n \in {0, TripThreshold - Spare} :
          breakers = [r \in Routes |->
                        IF r = focus THEN AfterFailures(NewCircuitBreaker(sec), n, 0)
                        ELSE NewCircuitBreaker(sec)]
    /\ collection = <<>>
    /\ nextOID = 0
    /\ ret = NoRet
    /\ last = NoRequest
    /\ hist = NoHistory
    /\ calls = 0
    /\ advances = 0
    /\ inflight = {}
    /\ event = NoEvent
    /\ NoClient
    /\ ledger = NoLedger

BreakerUnchanged ==
    UNCHANGED <<zipkinTracer, focus, limiters, collection, nextOID, ret, last, hist,
                clientZipkin, clientLimiter, clientBreakers, reply, ledger>>

\* Execute up to the call of the wrapped endpoint: beforeRequest
CbEnter ==
    /\ calls < MaxCalls
    /\ Cardinality(inflight) < MaxInFlight
    /\ \E b \in {BeforeRequest(breakers[focus], now)} :
          /\ breakers' = [breakers EXCEPT ![focus] = b.cb]
          /\ inflight' = IF b.err # Nil THEN inflight
                         ELSE inflight \cup {[id |-> calls + 1, generation |-> b.generation]}
          /\ event' = [kind |-> IF b.err # Nil THEN "refused" ELSE "admitted",
                       at |-> now, generation |-> b.generation, err |-> b.err,
                       cb0 |-> breakers[focus], cb1 |-> b.cb]
    /\ calls' = calls + 1
    /\ UNCHANGED <<now, advances>>
    /\ BreakerUnchanged

\* Execute from the return of the wrapped endpoint: afterRequest(generation, err == nil)
CbLeave ==
    \E c \in inflight, success \in BOOLEAN :
        /\ breakers' = [breakers EXCEPT
                            ![focus] = AfterRequest(@, c.generation, success, now)]
        /\ inflight' = inflight \ {c}
        /\ event' = [kind |-> IF success THEN "succeeded" ELSE "failed",
                     at |-> now, generation |-> c.generation, err |-> Nil,
                     cb0 |-> breakers[focus],
                     cb1 |-> AfterRequest(breakers[focus], c.generation, success, now)]
        /\ UNCHANGED <<now, calls, advances>>
        /\ BreakerUnchanged

\* time passes: a tick, or the breaker's timeout
CbAdvance ==
    \E d \in {1, breakers[focus].timeout} :
        /\ advances < MaxAdvances
        /\ now' = now + d
        /\ advances' = advances + 1
        /\ UNCHANGED <<breakers, calls, inflight, event>>
        /\ BreakerUnchanged

NextBreaker ==
    \/ CbEnter
    \/ CbLeave
    \/ CbAdvance

SpecBreaker == InitBreaker /\ [][NextBreaker]_vars

(***************************************************************************)
(* The circuit breaker after its timeout.                                  *)
(***************************************************************************)
\* the breaker's timeout had elapsed when the event's call came to it
TimedOut == event.cb0.state = "open" /\ event.cb0.expiry < event.at
\* the breaker was half-open when the event's call came to it
WasHalfOpen == event.cb0.state = "half-open" \/ TimedOut
\* the event is the return of a trial call: one the half-open breaker let in
TrialReturned ==
    /\ event.kind \in {"succeeded", "failed"}
    /\ event.cb0.state = "half-open"
    /\ event.generation = event.cb0.generation
\* the calls in flight that the half-open breaker let in
TrialsInFlight == {c \in inflight : c.generation = breakers[focus].generation}

\* C11: once the timeout has elapsed since the breaker opened, the next call
\* finds it half-open and is let in as a trial; while it is half-open no more
\* than CbMaxRequests trial calls are let in, further calls are refused with
\* ErrTooManyRequests; a trial that succeeds closes the breaker; a trial that
\* fails reopens it with the timeout counted from that failure; and no step
\* takes the breaker from open to closed directly.
C11_HalfOpenTrials ==
    /\ (event.kind \in {"admitted", "refused"} /\ TimedOut) =>
            /\ event.kind = "admitted"
            /\ event.cb1.state = "half-open"
            /\ event.cb1.counts.Requests = 1
    /\ breakers[focus].state = "half-open" =>
            /\ Cardinality(TrialsInFlight) <= CbMaxRequests
            /\ breakers[focus].counts.Requests <= CbMaxRequests
    /\ (event.kind \in {"admitted", "refused"} /\ event.cb0.state = "half-open") =>
            /\ event.kind = "refused" <=> event.cb0.counts.Requests >= CbMaxRequests
            /\ event.kind = "refused" => event.err = ErrTooManyRequests /\ event.cb1 = event.cb0
    /\ (TrialReturned /\ event.kind = "succeeded") => event.cb1.state = "closed"
    /\ (TrialReturned /\ event.kind = "failed") =>
            /\ event.cb1.state = "open"
            /\ event.cb1.expiry = event.at + event.cb1.timeout
    /\ event.cb0.state = "open" => event.cb1.state # "closed"
    /\ event.cb1.state = "half-open" => WasHalfOpen

\* a trial call failed and the breaker reopened
C11_Witness == TrialReturned /\ event.kind = "failed" /\ event.cb1.state = "open"
\* a trial call succeeded and the breaker closed
C11_WitnessClosed == TrialReturned /\ event.kind = "succeeded" /\ event.cb1.state = "closed"
\* a second call came while the trial was in flight
C11_WitnessTooMany == event.err = ErrTooManyRequests /\ TrialsInFlight # {}
\* the first call after the timeout
C11_WitnessTimedOut == event.kind = "admitted" /\ TimedOut /\ event.cb0.timeout = ClientTimeoutSec * TicksPerSec

(***************************************************************************)
(* addtransport: the client NewHTTPClient returns.  Its endpoints are      *)
(* lists of layers like the server's, ending in the httptransport.Client   *)
(* of some operation; the breakers are the client's own, the one limiter   *)
(* is shared, and the remote instance is the server modelled above.        *)
(***************************************************************************)
\* the method and the path given to httptransport.NewClient in each block
HTTPMethod(name) ==
    CASE name \in {"Sum", "Concat", "AddToDo"} -> "POST"
      [] name \in {"CompleteToDo", "UnDoToDo"} -> "PUT"
      [] name = "DeleteToDo" -> "DELETE"
      [] OTHER -> "GET"

HTTPPath(name) ==
    CASE name = "Sum" -> "/sum"
      [] name = "Concat" -> "/concat"
      [] name = "Ping" -> "/ping"
      [] name = "AddToDo" -> "/addToDo"
      [] name = "CompleteToDo" -> "/completeToDo"
      [] name = "UnDoToDo" -> "/unDoToDo"
      [] name = "DeleteToDo" -> "/deleteToDo"
      [] name = "GetAllToDo" -> "/getAllToDo"

\* the handler the server's mux has on a path, whatever the method
Handler(path) == CHOOSE route \in Routes : HTTPPath(route) = path

\* httptransport.NewClient(method, url, enc, dec).Endpoint()
NewClient(name) == <<Layer("http", name)>>
\* opentracing.TraceClient(otTracer, label)(next)
TraceClient(label, next) == <<Layer("ot", label)>> \o next

\* the blocks of Sum, Concat and Ping: the http client, opentracing, zipkin
\* if there is a tracer, the shared limiter, the block's breaker
ClientBlock(name, zk) ==
    Gobreaker(name, ErroringLimiter("client",
        IF zk THEN TraceEndpoint(name, TraceClient(name, NewClient(name)))
              ELSE TraceClient(name, NewClient(name))))

\* the to-do blocks in the order NewHTTPClient has them
ToDoBlocks == <<"AddToDo", "CompleteToDo", "UnDoToDo", "DeleteToDo", "GetAllToDo">>

RECURSIVE PingAsOf(_, _)
\* the variable pingEndpoint after the Ping block and k to-do blocks: each
\* to-do block assigns its zipkin decorator to pingEndpoint
PingAsOf(zk, k) ==
    IF k = 0 THEN ClientBlock("Ping", zk)
    ELSE IF zk THEN TraceEndpoint(ToDoBlocks[k], PingAsOf(zk, k - 1))
    ELSE PingAsOf(zk, k - 1)

\* to-do block k: opentracing wraps pingEndpoint as it is when the block
\* starts, then the limiter and the block's breaker
OverPing(k, zk) ==
    Gobreaker(ToDoBlocks[k], ErroringLimiter("client",
        TraceClient(ToDoBlocks[k], PingAsOf(zk, k - 1))))

\* NewHTTPClient: the Set it returns.  The GetAllToDo block puts the limiter
\* around deleteToDoEndpoint
NewHTTPClient(zk) ==
    [SumEndpoint |-> ClientBlock("Sum", zk),
     ConcatEndpoint |-> ClientBlock("Concat", zk),
     PingEndpoint |-> PingAsOf(zk, Len(ToDoBlocks)),
     AddToDoEndpoint |-> OverPing(1, zk),
     CompleteToDoEndPoint |-> OverPing(2, zk),
     UnDoToDoEndpoint |-> OverPing(3, zk),
     DeleteToDoEndpoint |-> OverPing(4, zk),
     GetAllToDoEndpoint |-> Gobreaker("GetAllToDo", ErroringLimiter("client", OverPing(4, zk)))]

\* the Timeout in the Settings of each block's breaker
ClientTimeout(name) == IF name = "Sum" THEN ClientSumTimeoutSec ELSE ClientTimeoutSec

\* http.Response.Status
StatusText(status) ==
    CASE status = StatusBadRequest -> "400 Bad Request"
      [] status = StatusInternalServerError -> "500 Internal Server Error"
      [] OTHER -> "200 OK"

\* the response struct each decodeHTTP<name>Response decodes into: its type,
\* its field and the field's JSON key
ResponseOf(name) ==
    CASE name = "Sum" -> [type |-> "SumResponse", field |-> "V", key |-> "v", zero |-> 0]
      [] name = "Concat" -> [type |-> "ConcatResponse", field |-> "V", key |-> "v", zero |-> <<>>]
      [] name = "Ping" -> [type |-> "PingResponse", field |-> "V", key |-> "v", zero |-> <<>>]
      [] name = "GetAllToDo" ->
            [type |-> "GetAllToDoResponse", field |-> "Todos", key |-> "todos", zero |-> <<>>]
      [] OTHER -> [type |-> name \o "Response", field |-> "TaskID", key |-> "taskID",
                   zero |-> <<>>]

\* json.NewDecoder(r.Body).Decode(&resp): the field takes the value under
\* its key, and keeps its zero value if the key is missing; Err is not decoded
FromJson(to, json) ==
    Response(to.type, to.field,
             [v |-> IF to.key \in DOMAIN json THEN json[to.key] ELSE to.zero, err |-> Nil])

\* decodeHTTPSumResponse .. decodeHTTPGetAllToDoResponse:
\* if r.StatusCode != http.StatusOK { return nil, errors.New(r.Status) }
DecodeResponse(name, status, payload) ==
    IF status # StatusOK THEN [resp |-> NoResp, err |-> StatusText(status)]
    ELSE [resp |-> FromJson(ResponseOf(name), payload.json), err |-> Nil]

\* encodeHTTPGenericRequest
encodeHTTPGenericRequest(request) == Json(request)

\* what the http client's endpoint returns once the server, then in state W,
\* has answered
Answered(L, W, d, R) ==
    [resp |-> d.resp, err |-> d.err, R |-> [R EXCEPT !.st = W],
     trace |-> <<L>>, core |-> W.last.core, port |-> W.last.port,
     logged |-> W.last.logged, observed |-> W.last.observed]

Received(L, W, R) ==
    Answered(L, W, DecodeResponse(L.n, W.last.status, W.last.payload), R)

\* httptransport.Client.Endpoint: enc, the request to the block's method and
\* path, dec
HttpLayer(L, req, R, t, fault) ==
    Received(L, ServeHTTP(R.st, R.zk, Handler(HTTPPath(L.n)),
                          encodeHTTPGenericRequest(req), fault), R)

\* the requests a layer list sends: method and path of its http layers
Sent(trace) ==
    [i \in 1..Len(SelectSeq(trace, LAMBDA l : l.k = "http")) |->
        [method |-> HTTPMethod(SelectSeq(trace, LAMBDA l : l.k = "http")[i].n),
         path |-> HTTPPath(SelectSeq(trace, LAMBDA l : l.k = "http")[i].n)]]

\* Set.Sum .. Set.GetAllToDo after the endpoint has returned out:
\* if err != nil { return zero, err }; response := resp.(XResponse);
\* return response.field, response.Err.  The type assertion panics when the
\* response is of another type.
SetReturn(name, out) ==
    IF out.err # Nil THEN [v |-> ResponseOf(name).zero, err |-> out.err, panic |-> FALSE]
    ELSE IF out.resp.type # ResponseOf(name).type
    THEN [v |-> ResponseOf(name).zero, err |-> Nil, panic |-> TRUE]
    ELSE [v |-> out.resp[ResponseOf(name).field], err |-> out.resp.Err, panic |-> FALSE]

\* the request struct a Set method builds from its arguments
ClientRequests(name) == {b.val : b \in Bodies(name) \ {Malformed}}

InitClient ==
    /\ zipkinTracer \in BOOLEAN
    /\ focus \in Routes
    /\ Become(NewWorld)
    /\ ret = NoRet
    /\ advances = 0
    /\ inflight = {}
    /\ event = NoEvent
    /\ clientZipkin \in BOOLEAN
    /\ clientLimiter = NewLimiter
    /\ clientBreakers = [n \in Routes |-> NewCircuitBreaker(ClientTimeout(n))]
    /\ reply = NoReply
    /\ ledger = NoLedger

\* the state after the call, whose endpoint returned out
ClientReturned(name, req, out, r) ==
    /\ clientLimiter' = out.R.lim.client
    /\ clientBreakers' = out.R.cb
    /\ limiters' = out.R.st.lim
    /\ breakers' = out.R.st.cb
    /\ collection' = out.R.st.st.coll
    /\ nextOID' = out.R.st.st.oid
    /\ last' = out.R.st.last
    /\ hist' = out.R.st.hist
    /\ calls' = out.R.st.calls
    /\ reply' = [op |-> name, args |-> req, seq |-> reply.seq + 1, at |-> now,
                 trace |-> out.trace, sent |-> Sent(out.trace),
                 status |-> IF Has(out.trace, "http") THEN out.R.st.last.status ELSE 0,
                 payload |-> IF Has(out.trace, "http") THEN out.R.st.last.payload
                             ELSE [kind |-> "none"],
                 resp |-> out.resp, v |-> r.v, err |-> r.err, panic |-> r.panic]

\* a method of the Set NewHTTPClient returned is called and returns
ClientCall ==
    \E req \in ClientRequests(focus), fault \in Faults(focus) :
        /\ reply.seq < MaxCalls
        /\ \E out \in {Run(EndpointOf(NewHTTPClient(clientZipkin), focus), req,
                           [lim |-> [client |-> clientLimiter], cb |-> clientBreakers,
                            st |-> World, zk |-> zipkinTracer], now, fault)} :
              ClientReturned(focus, req, out, SetReturn(focus, out))
        /\ UNCHANGED <<zipkinTracer, focus, now, ret, advances, inflight, event, clientZipkin,
                       ledger>>

\* time passes
ClientAdvance ==
    \E d \in Durations :
        /\ advances < MaxAdvances
        /\ now' = now + d
        /\ advances' = advances + 1
        /\ UNCHANGED <<zipkinTracer, focus, limiters, breakers, collection, nextOID,
                       ret, last, hist, calls, inflight, event, ledger>>
        /\ UNCHANGED clientVars

NextClient ==
    \/ ClientCall
    \/ ClientAdvance

SpecClient == InitClient /\ [][NextClient]_vars

(***************************************************************************)
(* The client: properties of the calls through NewHTTPClient's Set.        *)
(***************************************************************************)
\* a method of the client's Set has been called
Replied == reply.op # "none"
\* the names of the breakers a list of layers goes through
BreakersIn(trace) == {trace[i].n : i \in {j \in 1..Len(trace) : trace[j].k = "cb"}}

\* the client's part: a call goes through its own operation's breaker only,
\* and leaves the breakers of the other operations as they were made
ClientBreakerPerOperation ==
    Replied =>
        /\ BreakersIn(reply.trace) \subseteq {reply.op}
        /\ \A n \in Routes \ {reply.op} :
              clientBreakers[n] = NewCircuitBreaker(ClientTimeout(n))

\* the server's part: a request goes through the breaker of the route it was
\* sent to only, and leaves the breakers of the other routes as they were made
ServerBreakerPerOperation ==
    last.route # "none" =>
        /\ BreakersIn(last.trace) \subseteq {last.route}
        /\ \A n \in Routes \ {last.route} : breakers[n] = NewCircuitBreaker(0)

\* C12: circuit-breaker state is kept per operation, in the server's
\* endpoints and in the client's: a call of one operation neither passes
\* through nor changes the breaker of another operation.
C12_BreakerPerOperation == ClientBreakerPerOperation /\ ServerBreakerPerOperation

(***************************************************************************)
(* The server: the order of the decorators around an operation.            *)
(***************************************************************************)
\* the kinds of the layers a request entered, outermost first
Kinds(trace) == [i \in 1..Len(trace) |-> trace[i].k]

\* the place of each kind of layer in the order stated: tracing, logging,
\* instrumentation, circuit breaker, rate limiter, operation
StatedPlace(k) ==
    CASE k \in {"zipkin", "ot"} -> 1
      [] k = "log" -> 2
      [] k = "instr" -> 3
      [] k = "cb" -> 4
      [] k = "lim" -> 5
      [] k = "op" -> 6

\* the place of each kind of layer in the order addendpoint.New builds:
\* instrumentation, logging, zipkin, opentracing, breaker, limiter, operation
BuiltPlace(k) ==
    CASE k = "instr" -> 1
      [] k = "log" -> 2
      [] k = "zipkin" -> 3
      [] k = "ot" -> 4
      [] k = "cb" -> 5
      [] k = "lim" -> 6
      [] k = "op" -> 7

\* C13 as stated: a request to a server endpoint passes the decorators in
\* the order tracing, logging, instrumentation, circuit breaker, rate
\* limiter, operation, so that logging and instrumentation are inside the
\* tracing span.
C13_StatedOrder ==
    (Handled /\ Stepped) =>
        \A i, j \in 1..Len(last.trace) :
            i < j => StatedPlace(last.trace[i].k) <= StatedPlace(last.trace[j].k)

\* C13, amended: a request to a server endpoint passes the decorators the
\* endpoint has in the order instrumentation, logging, zipkin tracing,
\* opentracing, circuit breaker, rate limiter, operation, each at most once;
\* a request that reaches the operation has passed opentracing, the breaker
\* and the limiter, and logging and instrumentation, where an endpoint has
\* them, are outside the tracing span.
C13_BuiltOrder ==
    Handled =>
        /\ \A i, j \in 1..Len(last.trace) :
              i < j => BuiltPlace(last.trace[i].k) < BuiltPlace(last.trace[j].k)
        /\ ReachedOperation =>
              /\ SubSeq(Kinds(last.trace), Len(last.trace) - 3, Len(last.trace))
                    = <<"ot", "cb", "lim", "op">>
              /\ Has(last.trace, "log") <=> Has(last.trace, "instr")
              /\ ~zipkinTracer => Kinds(last.trace) = <<"instr", "log", "ot", "cb", "lim", "op">>

\* a request that went through all seven layers
C13_Witness ==
    /\ Stepped
    /\ Kinds(last.trace) = <<"instr", "log", "zipkin", "ot", "cb", "lim", "op">>

(***************************************************************************)
(* The server: what is written for a request.                              *)
(***************************************************************************)
\* the error a request failed with: the endpoint's error, or else the
\* business error its response carries
FailureOf(r) ==
    IF r.err # Nil THEN r.err ELSE IF r.resp # NoResp THEN r.resp.Err ELSE Nil

\* C14: a request that failed is answered with the error envelope carrying
\* the error's message, with status 400 when the error is ErrTwoZeroes,
\* ErrMaxSizeExceeded or ErrIntOverflow and status 500 for every other error
\* (a store error, ErrLimited, ErrOpenState, a decode error); a request that
\* did not fail is answered with status 200 and the JSON form of its typed
\* response; so no failed request is answered with status 200.
C14_ResponseEncoding ==
    Handled =>
        /\ FailureOf(last) # Nil =>
              /\ last.payload = [kind |-> "error", error |-> FailureOf(last)]
              /\ last.status =
                    IF FailureOf(last) \in {ErrTwoZeroes, ErrMaxSizeExceeded, ErrIntOverflow}
                    THEN 400 ELSE 500
        /\ FailureOf(last) = Nil =>
              /\ last.status = 200
              /\ last.payload.kind = "json"
              /\ last.payload.json =
                    CASE last.resp.type = "GetAllToDoResponse" -> [todos |-> last.resp.Todos]
                      [] last.resp.type \in {"SumResponse", "ConcatResponse", "PingResponse"} ->
                            [v |-> last.resp.V]
                      [] OTHER -> [taskID |-> last.resp.TaskID]
        /\ last.status = 200 <=> FailureOf(last) = Nil

\* a business error answered with 400
C14_Witness ==
    /\ Stepped
    /\ last.resp # NoResp
    /\ last.resp.Err = ErrMaxSizeExceeded
    /\ last.status = 400
    /\ last.payload = [kind |-> "error", error |-> ErrMaxSizeExceeded]
\* the overflow error, a store error, a rate-limit and a circuit-open
\* rejection, and a success
C14_WitnessOverflow == Stepped /\ FailureOf(last) = ErrIntOverflow /\ last.status = 400
C14_WitnessStore == Stepped /\ FailureOf(last) = StoreErr /\ last.status = 500
C14_WitnessLimited == Stepped /\ FailureOf(last) = ErrLimited /\ last.status = 500
C14_WitnessOpen == Stepped /\ FailureOf(last) = ErrOpenState /\ last.status = 500
C14_WitnessOK ==
    /\ Stepped
    /\ last.route = "AddToDo"
    /\ last.status = 200
    /\ last.payload = [kind |-> "json", json |-> [taskID |-> Hex(GenOID(1))]]

(***************************************************************************)
(* The client: decoding the server's answer.                               *)
(***************************************************************************)
\* the call sent a request and got an answer
GotAnswer == Replied /\ reply.sent # <<>>
\* the http client whose decoder read the answer
DecoderOf(trace) == trace[CHOOSE i \in 1..Len(trace) : trace[i].k = "http"].n

\* C15: when the server answers a client call with a status other than 200,
\* the client decodes the error envelope and the call's error carries the
\* server's message; when it answers 200, the client decodes the typed
\* response from the body.
C15_ClientDecodesError ==
    GotAnswer =>
        /\ reply.status # 200 =>
              /\ reply.payload.kind = "error"
              /\ reply.err = reply.payload.error
        /\ reply.status = 200 =>
              /\ reply.resp.type = ResponseOf(DecoderOf(reply.trace)).type
              /\ reply.resp[ResponseOf(DecoderOf(reply.trace)).field]
                    = reply.payload.json[ResponseOf(DecoderOf(reply.trace)).key]

(***************************************************************************)
(* The client: the request each operation sends.                           *)
(***************************************************************************)
\* the client's limiter or a client breaker ended the call
RefusedByClient == reply.err \in {ErrLimited, ErrOpenState, ErrTooManyRequests}

\* C16: each of the eight client operations issues exactly one HTTP call,
\* with its own method and to its own path (POST /sum, POST /concat,
\* GET /ping, POST /addToDo, PUT /completeToDo, PUT /unDoToDo,
\* DELETE /deleteToDo, GET /getAllToDo), and the decorators of the operation
\* wrap its own endpoint: the breaker, the tracing and the http client a call
\* goes through are those of the operation called.
C16_OwnMethodAndPath ==
    Replied =>
        /\ ~RefusedByClient =>
              reply.sent = <<[method |-> HTTPMethod(reply.op), path |-> HTTPPath(reply.op)]>>
        /\ Len(reply.sent) <= 1
        /\ \A i \in 1..Len(reply.trace) :
              reply.trace[i].k # "lim" => reply.trace[i].n = reply.op

(***************************************************************************)
(* The server: a body that is not JSON.                                    *)
(***************************************************************************)
\* the routes whose decoder reads the body
DecodingRoutes == {"Sum", "Concat", "AddToDo", "CompleteToDo", "UnDoToDo", "DeleteToDo"}

\* C17: a request with a malformed JSON body to Sum, Concat, AddToDo,
\* CompleteToDo, UnDoToDo or DeleteToDo ends with the decode error: the
\* endpoint is not invoked (no layer entered, no limiter token taken, no
\* breaker count, no service or port call), and the answer is the error
\* envelope with status 500.  Ping and GetAllToDo ignore the body: the
\* request goes to the endpoint as with any other body.
C17_MalformedBody ==
    (Handled /\ last.body = Malformed) =>
        IF last.route \in DecodingRoutes
        THEN /\ last.err = DecodeError
             /\ last.resp = NoResp
             /\ last.trace = <<>> /\ last.core = <<>> /\ last.port = <<>>
             /\ last.lim1 = last.lim0 /\ last.cb1 = last.cb0
             /\ last.status = 500
             /\ last.payload = [kind |-> "error", error |-> DecodeError]
        ELSE /\ last.err # DecodeError
             /\ last.trace # <<>>
             /\ ReachedOperation =>
                    /\ last.core = <<[m |-> last.route, args |-> <<>>]>>
                    /\ last.resp.Err = Nil => last.status = 200

\* a malformed body to a route that decodes
C17_Witness ==
    /\ Stepped
    /\ last.body = Malformed
    /\ last.route = "CompleteToDo"
    /\ last.status = 500
    /\ last.trace = <<>>
\* a malformed body to a route that does not
C17_WitnessIgnored ==
    /\ Stepped
    /\ last.body = Malformed
    /\ last.route = "GetAllToDo"
    /\ ReachedOperation
    /\ last.status = 200

(***************************************************************************)
(* The service middleware of addservice.New, as the server's requests      *)
(* pass it.                                                                *)
(***************************************************************************)
\* the service method the request called
Method == last.core[1].m

\* C18: for AddToDo, CompleteToDo, UnDoToDo, DeleteToDo and GetAllToDo the
\* instrumenting middleware records exactly one duration observation per
\* call, labelled with the name of the operation called and with error true
\* exactly when the call returned a non-nil error; no call is observed under
\* the name of another operation.
C18_ObservedUnderOwnName ==
    (Handled /\ Stepped /\ ReachedOperation /\ Method \in ToDoMethods) =>
        /\ Len(last.observed) = 1
        /\ last.observed[1].method = Method
        /\ last.observed[1].error = (last.resp.Err # Nil)

\* the store failed during the request's port call
PortFailed == last.port # <<>> /\ last.port[1].err # Nil
\* the limiter or the breaker turned the request away
Rejected == last.err \in {ErrLimited, ErrOpenState}
\* the logging and instrumentation decorators of the endpoint on the route
Observers(route) ==
    {l \in {EndpointOf(New(zipkinTracer), route)[i] :
                i \in 1..Len(EndpointOf(New(zipkinTracer), route))} : l.k \in {"log", "instr"}}
\* the layers the request entered
Passed == {last.trace[i] : i \in 1..Len(last.trace)}

C19_WitnessStore ==
    /\ Stepped
    /\ ReachedOperation
    /\ Method = "DeleteToDo"
    /\ PortFailed
    /\ last.logged[1].err = StoreErr
    /\ last.observed[1].error
\* a request turned away, on an endpoint with the two decorators
C19_WitnessRejected == Stepped /\ Rejected /\ Observers(last.route) # {}

(***************************************************************************)
(* The operation core: the life of a to-do item.                           *)
(***************************************************************************)
\* the call returned without an error
Succeeded(method) == ret.method = method /\ ret.err = Nil
\* the documents of a list that have the ID
WithID(items, id) == {i \in 1..Len(items) : items[i].ID = id}
\* a list of documents holds exactly the expected items, each once and with
\* the expected status
Holds(items, expected) ==
    /\ \A i \in 1..Len(expected) :
          /\ Cardinality(WithID(items, expected[i].id)) = 1
          /\ \A j \in WithID(items, expected[i].id) : items[j].Status = expected[i].status
    /\ \A j \in 1..Len(items) : \E i \in 1..Len(expected) : expected[i].id = items[j].ID

\* C20: over any sequence of calls, AddToDo returns a task ID of 24
\* hexadecimal characters that no item present had; CompleteToDo, UnDoToDo
\* and DeleteToDo of a task ID return that same task ID; and the items are,
\* and GetAllToDo returns, exactly the items added and not deleted since,
\* each with status true after a CompleteToDo of its ID, false after an
\* UnDoToDo, and otherwise as it was added.
C20_ToDoLifecycle ==
    /\ Succeeded("AddToDo") =>
          /\ Len(ret.v) = 24
          /\ \A i \in 1..Len(ret.v) : ret.v[i] \in {HexChars[k] : k \in 1..16}
          /\ ledger.fresh
          /\ WithID(collection, OidOf(ret.v)) = {Len(collection)}
    /\ (Succeeded("CompleteToDo") \/ Succeeded("UnDoToDo") \/ Succeeded("DeleteToDo")) =>
          ret.v = RetA
    /\ Succeeded("CompleteToDo") =>
          \A j \in WithID(collection, OidOf(RetA)) : collection[j].Status
    /\ Succeeded("UnDoToDo") =>
          \A j \in WithID(collection, OidOf(RetA)) : ~collection[j].Status
    /\ Succeeded("DeleteToDo") => WithID(collection, OidOf(RetA)) = {}
    /\ Succeeded("GetAllToDo") => Holds(ret.v, ledger.live)
    /\ Holds(collection, ledger.live)

\* GetAllToDo shows as done the item whose ID AddToDo returned and that was
\* then completed
C20_Witness ==
    /\ Succeeded("GetAllToDo")
    /\ \E j \in 1..Len(ret.v), i \in 1..Len(ledger.live) :
          /\ ledger.live[i] = [id |-> ret.v[j].ID, status |-> TRUE, by |-> "CompleteToDo"]
          /\ ret.v[j].Status
          /\ ret.v[j].ID = GenOID(1)
\* .. and as undone one that was undone again
C20_WitnessUndone ==
    /\ Succeeded("GetAllToDo")
    /\ \E j \in 1..Len(ret.v), i \in 1..Len(ledger.live) :
          /\ ledger.live[i] = [id |-> ret.v[j].ID, status |-> FALSE, by |-> "UnDoToDo"]
          /\ ~ret.v[j].Status
\* .. and no longer one that was deleted, while another item stays
C20_WitnessDeleted ==
    /\ Succeeded("DeleteToDo")
    /\ RetA = Hex(GenOID(1))
    /\ nextOID = 1
    /\ Len(collection) = 1

(***************************************************************************)
(* The server with to-do items stored: requests to /addToDo and to         *)
(* /deleteToDo, one after the other, from a fresh server.                  *)
(***************************************************************************)
\* at most this many to-do requests
MaxToDoCalls == 4

\* a task ID the driver has not generated
UnknownID == Hex(GenOID(MaxItems + 1))

\* the bodies sent to /deleteToDo: the ID of the first item added, an ID of
\* no item, an ID too short, an ID that is not hexadecimal, and no JSON
DeleteBodies ==
    {Json([TaskID |-> Hex(GenOID(1))]), Json([TaskID |-> UnknownID]),
     Json([TaskID |-> ShortID]), Json([TaskID |-> NotHexID]), Malformed}

InitToDo ==
    /\ zipkinTracer \in BOOLEAN
    /\ focus = "none"
    /\ Become(NewWorld)
    /\ ret = NoRet
    /\ advances = 0
    /\ inflight = {}
    /\ event = NoEvent
    /\ NoClient
    /\ ledger = NoLedger

\* the request is handled to its end by the handler on the route
Served(route, body, fault) ==
    /\ \E W \in {ServeHTTP(World, zipkinTracer, route, body, fault)} :
          /\ limiters' = W.lim
          /\ breakers' = W.cb
          /\ collection' = W.st.coll
          /\ nextOID' = W.st.oid
          /\ last' = W.last
          /\ hist' = W.hist
          /\ calls' = W.calls
    /\ UNCHANGED <<zipkinTracer, focus, now, ret, advances, inflight, event, ledger>>
    /\ UNCHANGED clientVars

\* POST /addToDo with a task that has no ID of its own
AddRequest ==
    \E status \in BOOLEAN :
        /\ calls < MaxToDoCalls
        /\ nextOID < MaxItems
        /\ Served("AddToDo", Json([ID |-> NilObjectID, Task |-> "buy milk", Status |-> status]),
                  FALSE)

\* DELETE /deleteToDo
DeleteRequest ==
    \E body \in DeleteBodies, fault \in BOOLEAN :
        /\ calls < MaxToDoCalls
        /\ Served("DeleteToDo", body, fault)

NextToDo ==
    \/ AddRequest
    \/ DeleteRequest

SpecToDo == InitToDo /\ [][NextToDo]_vars

(***************************************************************************)
(* The server: deleting an item that is not there.                         *)
(***************************************************************************)
\* the step handles a DELETE /deleteToDo whose body names task ID id
Deletes(id) ==
    /\ last'.seq = last.seq + 1
    /\ last'.route = "DeleteToDo"
    /\ last'.body = Json([TaskID |-> id])
\* the task ID is not the hex form of an ObjectID
MalformedID(id) == ObjectIDFromHex(id).err # Nil
\* the task ID is well-formed and no stored item has it
UnknownIn(coll, id) == ~MalformedID(id) /\ ~HasID(coll, OidOf(id))
\* the store failed during the request handled in the step
StoreFailed == last'.port # <<>> /\ last'.port[1].err = StoreErr

\* C21 as stated: DELETE /deleteToDo with an ID that is unknown or malformed
\* is answered with status 500 and the error envelope carrying the
\* identifier-decode error, and no stored item is removed.
C21_UnknownOrMalformedFails ==
    [][\A id \in TaskIDs :
          (Deletes(id) /\ (MalformedID(id) \/ UnknownIn(collection, id))) =>
              /\ last'.status = 500
              /\ last'.payload = [kind |-> "error", error |-> ErrInvalidHex]
              /\ collection' = collection]_vars

\* C21, amended: DELETE /deleteToDo with a malformed ID is answered with
\* status 500 and the error envelope carrying the identifier-decode error;
\* with a well-formed ID that no stored item has, and the store reachable,
\* it is answered with status 200 and that ID, as a delete that removed an
\* item is; in both cases no stored item is removed.
C21_MalformedFailsUnknownSucceeds ==
    [][\A id \in TaskIDs :
          /\ (Deletes(id) /\ MalformedID(id)) =>
                /\ last'.status = 500
                /\ last'.payload = [kind |-> "error", error |-> ErrInvalidHex]
                /\ last'.port[1].err = ErrInvalidHex
                /\ collection' = collection
          /\ (Deletes(id) /\ UnknownIn(collection, id)) =>
                /\ collection' = collection
                /\ ~StoreFailed =>
                      /\ last'.status = 200
                      /\ last'.payload = [kind |-> "json", json |-> [taskID |-> id]]
                /\ StoreFailed =>
                      /\ last'.status = 500
                      /\ last'.payload = [kind |-> "error", error |-> StoreErr]]_vars

\* an unknown ID was deleted with an item stored: 200, and the item is there
C21_Witness ==
    /\ last.route = "DeleteToDo"
    /\ last.body = Json([TaskID |-> UnknownID])
    /\ last.status = 200
    /\ last.payload = [kind |-> "json", json |-> [taskID |-> UnknownID]]
    /\ Len(collection) = 1
    /\ collection[1].ID = GenOID(1)
\* a malformed ID with an item stored: 500 and the decode error
C21_WitnessMalformed ==
    /\ last.route = "DeleteToDo"
    /\ last.body = Json([TaskID |-> ShortID])
    /\ last.status = 500
    /\ last.payload = [kind |-> "error", error |-> ErrInvalidHex]
    /\ Len(collection) = 1
\* the ID of a stored item: removed
C21_WitnessRemoved ==
    /\ last.route = "DeleteToDo"
    /\ last.body = Json([TaskID |-> Hex(GenOID(1))])
    /\ last.status = 200
    /\ nextOID = 1
    /\ collection = <<>>

(***************************************************************************)
(* One server endpoint under requests that overlap.  Each request runs in  *)
(* its own goroutine through the endpoint's breaker, limiter and           *)
(* operation; the breaker's beforeRequest and afterRequest and the         *)
(* limiter's Allow each run under the mutex of the instance they belong    *)
(* to, and nothing is locked in between.  A request in flight is at the    *)
(* limiter ("lim"), at the operation ("op") or on its way back through the *)
(* breaker ("ret").                                                        *)
(***************************************************************************)
InitShared ==
    /\ zipkinTracer = FALSE
    /\ focus \in {"Sum", "Ping"}
    /\ \E n \in WarmChoices(focus, FALSE) :
          \E W \in {WarmUp(NewWorld, FALSE, focus, n)} : Become(W)
    /\ ret = NoRet
    /\ advances = 0
    /\ inflight = {}
    /\ event = NoEvent
    /\ NoClient
    /\ ledger = NoLedger

SharedUnchanged ==
    UNCHANGED <<zipkinTracer, focus, collection, nextOID, ret, last,
                clientZipkin, clientLimiter, clientBreakers, reply, ledger>>

\* the request in flight c, moved on to pc with the endpoint error err
Moved(c, pc, err) == (inflight \ {c}) \cup {[c EXCEPT !.pc = pc, !.err = err]}

\* a request comes to the breaker: beforeRequest
SharedEnter ==
    /\ calls < hist.warm + MaxCalls
    /\ Cardinality(inflight) < MaxInFlight
    /\ \E b \in {BeforeRequest(breakers[focus], now)} :
          /\ breakers' = [breakers EXCEPT ![focus] = b.cb]
          /\ inflight' = IF b.err # Nil THEN inflight
                         ELSE inflight \cup {[id |-> calls + 1, generation |-> b.generation,
                                              pc |-> "lim", err |-> Nil]}
          /\ event' = [kind |-> IF b.err # Nil THEN "refused" ELSE "admitted",
                       at |-> now, generation |-> b.generation, err |-> b.err,
                       cb0 |-> breakers[focus], cb1 |-> b.cb]
    /\ calls' = calls + 1
    /\ UNCHANGED <<now, advances, limiters, hist>>
    /\ SharedUnchanged

\* a request the breaker let in comes to the limiter: Allow
SharedAllow ==
    \E c \in {x \in inflight : x.pc = "lim"} :
        \E a \in {Allow(limiters[focus], LimiterBurst(focus), now)} :
            /\ limiters' = [limiters EXCEPT ![focus] = a.lim]
            /\ inflight' = IF a.ok THEN Moved(c, "op", Nil) ELSE Moved(c, "ret", ErrLimited)
            /\ hist' = [hist EXCEPT !.admitted = IF a.ok THEN @ + 1 ELSE @,
                                    !.lastAdmit = IF a.ok THEN now ELSE @]
            /\ event' = [kind |-> IF a.ok THEN "allowed" ELSE "limited",
                         at |-> now, generation |-> c.generation,
                         err |-> IF a.ok THEN Nil ELSE ErrLimited,
                         cb0 |-> breakers[focus], cb1 |-> breakers[focus]]
            /\ UNCHANGED <<now, advances, breakers, calls>>
            /\ SharedUnchanged

\* a request the limiter let through calls the operation, which returns
SharedInvoke ==
    \E c \in {x \in inflight : x.pc = "op"}, fault \in Faults(focus) :
        \E out \in {OperationLayer(focus, WarmBody(focus).val,
                                   [lim |-> limiters, cb |-> breakers, st |-> StoreState],
                                   fault)} :
            /\ inflight' = Moved(c, "ret", out.err)
            /\ event' = [kind |-> "invoked", at |-> now, generation |-> c.generation,
                         err |-> out.err, cb0 |-> breakers[focus], cb1 |-> breakers[focus]]
            /\ UNCHANGED <<now, advances, limiters, breakers, hist, calls>>
            /\ SharedUnchanged

\* a request comes back to the breaker: afterRequest(generation, err == nil)
SharedLeave ==
    \E c \in {x \in inflight : x.pc = "ret"} :
        \E cb \in {AfterRequest(breakers[focus], c.generation, c.err = Nil, now)} :
            /\ breakers' = [breakers EXCEPT ![focus] = cb]
            /\ inflight' = inflight \ {c}
            /\ event' = [kind |-> IF c.err = Nil THEN "succeeded" ELSE "failed",
                         at |-> now, generation |-> c.generation, err |-> c.err,
                         cb0 |-> breakers[focus], cb1 |-> cb]
            /\ UNCHANGED <<now, advances, limiters, hist, calls>>
            /\ SharedUnchanged

\* time passes while requests are in flight
SharedAdvance ==
    \E d \in Durations :
        /\ advances < MaxAdvances
        /\ now' = now + d
        /\ advances' = advances + 1
        /\ UNCHANGED <<limiters, breakers, hist, calls, inflight, event>>
        /\ SharedUnchanged

NextShared ==
    \/ SharedEnter
    \/ SharedAllow
    \/ SharedInvoke
    \/ SharedLeave
    \/ SharedAdvance

SpecShared == InitShared /\ [][NextShared]_vars

(***************************************************************************)
(* The server: the limiter and the breaker under overlapping requests.     *)
(***************************************************************************)
\* the breaker is Open at time t: opened, and its timeout not yet over
IsOpen(cb, t) == CurrentState(cb, t).state = "open"
\* the tokens the bucket of the route has had by now: its burst, and one
\* more each second
TokensSoFar == LimiterBurst(focus) + (now \div TicksPerSec)
\* the requests in flight that the breaker let in during its current generation
OfThisGeneration == {c \in inflight : c.generation = breakers[focus].generation}

\* the limiter never lets through more requests than it has had tokens; in
\* particular one Sum request at most without a refill
NoTokenSpentTwice ==
    /\ hist.admitted <= TokensSoFar
    /\ (focus = "Sum" /\ now < TicksPerSec) => hist.admitted <= 1
    /\ limiters[focus].tokens >= 0
    /\ limiters[focus].tokens <= LimiterBurst(focus) * TicksPerSec

\* C22 as stated: under concurrent requests to the same operation the
\* limiter's bucket and the breaker's state are updated atomically: with
\* burst 1 and no refill at most one of the concurrent Sum requests is
\* admitted, the admitted requests never exceed the tokens available, and no
\* request reaches the operation while the breaker is Open.
C22_NoneReachesOperationWhileOpen ==
    /\ NoTokenSpentTwice
    /\ event.kind = "invoked" => ~IsOpen(event.cb0, event.at)

\* C22, amended: under concurrent requests to the same operation the
\* limiter's bucket and the breaker's state are updated atomically: with
\* burst 1 and no refill at most one of the concurrent Sum requests is
\* admitted, the admitted requests never exceed the tokens available, every
\* request that comes to the breaker while it is Open is refused, and the
\* breaker's counts lose no request: while it is closed, the requests it has
\* counted are those that returned plus those still in flight.  A request the
\* breaker let in before it opened still goes on to the operation.
C22_AtomicUpdates ==
    /\ NoTokenSpentTwice
    /\ event.kind \in {"admitted", "refused"} =>
          /\ IsOpen(event.cb0, event.at) <=> event.err = ErrOpenState
          /\ event.kind = "admitted" <=> event.err = Nil
          /\ event.kind = "admitted" => ~IsOpen(event.cb0, event.at)
    /\ breakers[focus].state = "closed" =>
          breakers[focus].counts.Requests
              = breakers[focus].counts.TotalSuccesses
                    + breakers[focus].counts.TotalFailures
                    + Cardinality(OfThisGeneration)
    /\ \A c \in inflight : c.pc = "op" => c.err = Nil
    /\ event.kind = "invoked" => event.err = Nil

\* two Sum requests in flight at once with one token in the bucket: one is
\* let through, the other is rejected
C22_Witness ==
    /\ focus = "Sum"
    /\ event.kind = "limited"
    /\ Cardinality(inflight) = 2
    /\ \E c \in inflight : c.pc = "op"
    /\ \E c \in inflight : c.pc = "ret" /\ c.err = ErrLimited
    /\ hist.admitted = TokensSoFar
\* a request let in by the closed breaker calls the operation after the
\* rejection of another has opened the breaker
C22_WitnessWhileOpen ==
    /\ event.kind = "invoked"
    /\ IsOpen(event.cb0, event.at)
\* a request comes to the open breaker while another is in flight
C22_WitnessRefused ==
    /\ event.kind = "refused"
    /\ event.err = ErrOpenState
    /\ inflight # {}

(***************************************************************************)
(* The server: what the breaker of an endpoint counts.                     *)
(***************************************************************************)
\* the error the service method returned to the endpoint's body
Returns(err) == ReachedOperation /\ last.logged # <<>> /\ last.logged[1].err = err
\* the breaker took the request for a failure, for a success
CountedAsFailure ==
    last.cb1.state = "open" \/ last.cb1.counts.ConsecutiveFailures > 0
CountedAsSuccess ==
    /\ last.cb1.state = "closed"
    /\ last.cb1.counts.ConsecutiveFailures = 0
    /\ last.cb0.state = "closed" =>
          last.cb1.counts.TotalSuccesses = last.cb0.counts.TotalSuccesses + 1

\* C23: a Sum call that fails with ErrIntOverflow is returned as the
\* endpoint's own error and counts as a failure against the Sum breaker;
\* one that fails with ErrTwoZeroes is carried in the response's Err field
\* only, with a nil endpoint error, and does not count against the breaker.
C23_OverflowCountsAgainstBreaker ==
    (Handled /\ Stepped /\ last.route = "Sum") =>
        /\ Returns(ErrIntOverflow) =>
              /\ last.err = ErrIntOverflow
              /\ CountedAsFailure
        /\ Returns(ErrTwoZeroes) =>
              /\ last.err = Nil
              /\ last.resp.Err = ErrTwoZeroes
              /\ CountedAsSuccess

(***************************************************************************)
(* The server: the endpoint behind each field of the Set.                  *)
(***************************************************************************)
\* the layers of a kind that a request entered
LayersOf(trace, k) == {trace[i] : i \in {j \in 1..Len(trace) : trace[j].k = k}}

\* C24: each endpoint field of the Set addendpoint.New returns invokes its
\* own operation with its own full chain, with and without a zipkin tracer:
\* a request to an endpoint passes that operation's breaker and limiter and
\* no other, passes the endpoint's logging and instrumentation decorators,
\* calls that operation's service method, and, when a zipkin tracer is
\* configured, passes a zipkin decorator; in particular ConcatEndpoint calls
\* Concat and PingEndpoint's chain has the zipkin decorator labelled "Ping".
C24_OwnOperationOwnChain ==
    (Handled /\ Stepped /\ last.trace # <<>>) =>
        /\ \A l \in LayersOf(last.trace, "cb") \cup LayersOf(last.trace, "lim")
                        \cup LayersOf(last.trace, "op") : l.n = last.route
        /\ Has(last.trace, "instr") /\ Has(last.trace, "log")
        /\ ReachedOperation => Method = last.route
        /\ zipkinTracer => Has(last.trace, "zipkin")
        /\ (zipkinTracer /\ last.route = "Ping") =>
              LayersOf(last.trace, "zipkin") = {Layer("zipkin", "Ping")}

(***************************************************************************)
(* The Set methods: the type of the response they downcast.                *)
(***************************************************************************)
\* C25: for both ways of building a Set, whenever an operation's endpoint
\* returns a nil error, the response has the response type that the Set
\* method of that operation downcasts to, so no Set method panics on its
\* type assertion: not a method of the client's Set, and not a method of the
\* Set of addendpoint.New, whose endpoints are the ones the server's routes
\* call.
C25_NoSetMethodPanics ==
    /\ Replied => ~reply.panic
    /\ (Replied /\ reply.err = Nil /\ reply.resp # NoResp) =>
          reply.resp.type = ResponseOf(reply.op).type
    /\ (last.route # "none" /\ last.err = Nil) =>
          last.resp.type = ResponseOf(last.route).type

(***************************************************************************)
(* The client: its one rate limiter.                                       *)
(***************************************************************************)
ClientBurst == 100
\* how many times a call came to a limiter
TimesLimited(trace) == Cardinality({i \in 1..Len(trace) : trace[i].k = "lim"})

\* C26: the client's eight operations share one limiter of burst 100, and a
\* call of any of them passes that limiter exactly once and takes exactly
\* one token: with no refill, after n admitted calls the bucket holds
\* 100 - n tokens, so that exactly 100 calls are admitted before one is
\* rejected.
C26_OneTokenPerCall ==
    Replied =>
        /\ \A l \in LayersOf(reply.trace, "lim") : l.n = "client"
        /\ TimesLimited(reply.trace) = 1
        /\ advances = 0 =>
              clientLimiter.tokens = (ClientBurst - reply.seq) * TicksPerSec

(***************************************************************************)
(* The server: the limiter inside the breaker.                             *)
(***************************************************************************)
\* the tokens (in ticks) the route's bucket had when the request came
TokensThen ==
    LimiterAdvance(last.lim0,
                   LimiterBurst(InstanceOf(EndpointOf(New(zipkinTracer), last.route), "lim")),
                   last.at)

C27_WitnessTrips ==
    /\ Stepped
    /\ last.err = ErrLimited
    /\ hist.run = TripThreshold
    /\ last.cb0.state = "closed"
    /\ last.cb1.state = "open"
\* a persistence error and a business error counted as successes
C27_WitnessStoreError == Stepped /\ PortFailed /\ Returns(StoreErr) /\ CountedAsSuccess
C27_WitnessBusinessError == Stepped /\ Returns(ErrTwoZeroes) /\ CountedAsSuccess
\* after the timeout the request comes to the limiter again
C27_WitnessAfterTimeout ==
    /\ Stepped
    /\ last.cb0.state = "open"
    /\ ReachedLimiter

(***************************************************************************)
(* The service's instrumentation: the two counters.                        *)
(***************************************************************************)
\* what the request added to the counter
AddedTo(metric) ==
    IF last.observed # <<>> /\ last.observed[1].metric = metric
    THEN last.observed[1].add ELSE 0
\* the request's call of the service failed
CallFailed == last.logged # <<>> /\ last.logged[1].err # Nil

\* C28: the counters of integers summed and of characters concatenated
\* never decrease: a Sum call adds a non-negative amount to the integers
\* counter, 0 when it fails; a Concat call adds the length of the returned
\* string to the characters counter, 0 when it fails; and no other operation
\* changes either counter.
C28_CountersNeverDecrease ==
    (Handled /\ Stepped /\ ReachedOperation) =>
        /\ AddedTo("ints") >= 0
        /\ AddedTo("chars") >= 0
        /\ Method = "Sum" =>
              /\ AddedTo("ints") = last.resp.V
              /\ CallFailed => AddedTo("ints") = 0
        /\ Method = "Concat" =>
              /\ AddedTo("chars") = Len(last.resp.V)
              /\ CallFailed => AddedTo("chars") = 0
        /\ Method # "Sum" => AddedTo("ints") = 0
        /\ Method # "Concat" => AddedTo("chars") = 0

\* Sum(-1, -2) takes 3 off the integers counter
C28_WitnessNegative ==
    /\ Stepped
    /\ ReachedOperation
    /\ Method = "Sum"
    /\ last.core[1].args = <<-1, -2>>
    /\ AddedTo("ints") = -3

(***************************************************************************)
(* The operation core: what CompleteToDo and UnDoToDo leave alone.         *)
(***************************************************************************)
\* the step is a call of CompleteToDo or UnDoToDo
SetsStatus ==
    /\ ret'.method \in {"CompleteToDo", "UnDoToDo"}
    /\ ret'.port # <<>>
\* the status the method called in the step sets
StatusSet == ret'.method = "CompleteToDo"
\* the port call of the step found the store down
StoreDown == ret'.port[1].err = StoreErr
\* the same call made once more on the state the step leaves
OnceMore(id) ==
    IF StatusSet THEN CompleteToDo([coll |-> collection', oid |-> nextOID'], id, FALSE)
    ELSE UnDoToDo([coll |-> collection', oid |-> nextOID'], id, FALSE)
\* the step's call is the call before it again, and both succeeded
Repeated ==
    /\ ret.method = ret'.method /\ ret.args = ret'.args
    /\ ret.err = Nil /\ ret'.err = Nil

\* C29: CompleteToDo(id) and UnDoToDo(id) change nothing but the status of
\* the item whose identifier is id, set to true, respectively false: they
\* add and remove no item, change no other item's task or status, and the
\* same call made again leaves the same state; with a well-formed id of no
\* item they change nothing and return id with a nil error; with a malformed
\* id they return an error and change nothing.
C29_OnlyTheStatusOfTheItem ==
    [][SetsStatus =>
          \A id \in {ret'.args[1]} : \A parsed \in {ObjectIDFromHex(id)} :
          \A oid \in {parsed.id} :
              /\ Len(collection') = Len(collection)
              /\ nextOID' = nextOID
              /\ \A i \in 1..Len(collection) :
                    /\ collection'[i].ID = collection[i].ID
                    /\ collection'[i].Task = collection[i].Task
                    /\ collection[i].ID # oid => collection'[i].Status = collection[i].Status
                    /\ (collection[i].ID = oid /\ ret'.err = Nil) =>
                          collection'[i].Status = StatusSet
              /\ ret'.err # Nil => collection' = collection
              /\ ret'.err = Nil =>
                    /\ ret'.v = id
                    /\ \A again \in {OnceMore(id)} :
                          /\ again.st.coll = collection'
                          /\ again.v = id /\ again.err = Nil
              /\ Repeated => collection' = collection
              /\ parsed.err # Nil => ret'.err = ErrInvalidHex /\ ret'.v = <<>>
              /\ (parsed.err = Nil /\ ~HasID(collection, oid) /\ ~StoreDown) =>
                    /\ ret'.err = Nil /\ ret'.v = id
                    /\ collection' = collection
              /\ (parsed.err = Nil /\ ~StoreDown) => ret'.err = Nil]_vars

\* CompleteToDo of one of two items: that item is done, the other is not
C29_Witness ==
    /\ Succeeded("CompleteToDo")
    /\ RetA = Hex(ClientOID)
    /\ Len(collection) = 2
    /\ \E i, j \in 1..2 :
          /\ collection[i].ID = ClientOID /\ collection[i].Status
          /\ collection[j].ID = GenOID(1) /\ ~collection[j].Status
\* UnDoToDo of a well-formed ID that no item has, with an item stored
C29_WitnessUnknown ==
    /\ Succeeded("UnDoToDo")
    /\ RetA = UnknownID
    /\ ret.v = UnknownID
    /\ Len(collection) = 1
    /\ collection[1].Status
\* a malformed ID, with an item stored
C29_WitnessMalformed ==
    /\ ret.method = "CompleteToDo"
    /\ RetA = NotHexID
    /\ ret.err = ErrInvalidHex
    /\ Len(collection) = 1
    /\ ~collection[1].Status
=============================================================================
